---- MODULE Spec2Model ----
(***************************************************************************)
(* Model of the RandomWalkSequencer MIDI step sequencer                    *)
(* (Plugins/RandomWalkSequencer/Source/RandomWalkSequencer.cpp).           *)
(*                                                                         *)
(* The processor object is the record eng, whose fields carry the names    *)
(* of the C++ members.  Every public method is an operator from a          *)
(* processor record to a processor record (or to a record holding the      *)
(* processor and the MIDI buffer it produced), and every action applies    *)
(* one such operator to eng.                                               *)
(*                                                                         *)
(* Number representation.  The double-typed time quantities                *)
(* (sampleCounter, samplesPerBeat, stepDuration, getNoteLength()) are      *)
(* integers counting 1/TicksPerSample of a sample; the float gateValue is  *)
(* an integer number of 1/GateScale.  The tempo, sample-rate, rate and     *)
(* gate values the model draws from are such that all products and         *)
(* quotients are exact in this representation.                             *)
(***************************************************************************)
EXTENDS Integers, Sequences, FiniteSets, TLC

VARIABLES
    eng,          \* the RandomWalkSequencer object (all member fields)
    playHead,     \* what getPlayHead()->getPosition() reports, or NoPlayHead
    midiMessages, \* the MIDI buffer handed back by the last processBlock
    log,          \* every event delivered to the host so far, absolute time
    clock,        \* number of samples processed so far (sum of block sizes)
    lastOp,       \* the last call made on the processor
    blocks,       \* number of processBlock calls so far
    calls,        \* number of other calls so far
    playStart,    \* clock value when playback last started, -1 if it never did
    tape,         \* the draws the juce::Random source will deliver
    destData,     \* the last state document written by getStateInformation
    reloaded,     \* a second processor, constructed and loaded from destData
    threads       \* the message thread and the audio thread inside their calls

vars == <<eng, playHead, midiMessages, log, clock, lastOp, blocks, calls,
          playStart, tape, destData, reloaded, threads>>

-----------------------------------------------------------------------------
(* Arithmetic as C++ computes it *)

Abs(x) == IF x < 0 THEN -x ELSE x

Min(a, b) == IF a < b THEN a ELSE b

\* C++ integer division and (int) conversion truncate toward zero
CDiv(a, b) == IF a >= 0 THEN a \div b ELSE -((-a) \div b)

\* C++ remainder has the sign of the dividend
CMod(a, b) == a - b * CDiv(a, b)

jlimit(lo, hi, v) == IF v < lo THEN lo ELSE IF v > hi THEN hi ELSE v

-----------------------------------------------------------------------------
(* Program constants *)

numSteps == 16

maxRange == 12

TicksPerSample == 64

GateScale == 100

Steps == 0 .. (numSteps - 1)

\* rateValues[] of getRateInSeconds, as numerator / denominator
RateNum == <<1, 1, 1, 1, 1, 1, 1, 2, 3, 4>>

RateDen == <<32, 16, 8, 4, 3, 2, 1, 1, 1, 1>>

-----------------------------------------------------------------------------
(* Pattern generation.  A tape fixes the outcome of every draw of the      *)
(* juce::Random source: start is the first nextInt(25); step[i] holds the  *)
(* draws of loop iteration i of generateRandomWalk; fix[i], numAccents and *)
(* acc are the draws of enhanceSequenceMelodically.                        *)

\* one iteration of the main loop of generateRandomWalk; st is
\* [currentValue, prevDirection, consecutiveSteps], c the iteration's draws
WalkMove(st, c) ==
    IF c.reset
    THEN [currentValue |-> c.resetVal - maxRange,
          prevDirection |-> 0, consecutiveSteps |-> 0]
    ELSE IF c.brk \/ st.consecutiveSteps > 3
    THEN LET pd == IF st.prevDirection = 0
                   THEN (IF c.coin THEN 1 ELSE -1)
                   ELSE -st.prevDirection
             jumpSize == 3 + c.jump
         IN [currentValue |-> st.currentValue + pd * jumpSize,
             prevDirection |-> pd, consecutiveSteps |-> 0]
    ELSE IF c.stay
    THEN [st EXCEPT !.consecutiveSteps = 0]
    ELSE LET direction ==
                 IF st.consecutiveSteps >= 2 /\ c.change
                 THEN -st.prevDirection
                 ELSE IF c.flip THEN -st.prevDirection
                      ELSE IF st.prevDirection # 0 THEN st.prevDirection
                           ELSE (IF c.coin THEN 1 ELSE -1)
             stepSize ==
                 IF c.big THEN 4 + c.bigSize
                 ELSE IF c.r = "lo" THEN 1
                      ELSE IF c.r = "mid" THEN 2
                           ELSE 3 + c.smallSize
         IN [currentValue |-> st.currentValue + direction * stepSize,
             prevDirection |-> direction,
             consecutiveSteps |-> IF direction = st.prevDirection
                                  THEN st.consecutiveSteps + 1 ELSE 1]

\* the soft boundaries at the end of the iteration
WalkReflect(st, c) ==
    IF st.currentValue > maxRange
    THEN IF c.reflect
         THEN [st EXCEPT !.currentValue = maxRange - (st.currentValue - maxRange),
                         !.prevDirection = -st.prevDirection]
         ELSE [st EXCEPT !.currentValue = maxRange]
    ELSE IF st.currentValue < -maxRange
    THEN IF c.reflect
         THEN [st EXCEPT !.currentValue = -maxRange + (-maxRange - st.currentValue),
                         !.prevDirection = -st.prevDirection]
         ELSE [st EXCEPT !.currentValue = -maxRange]
    ELSE st

RECURSIVE WalkLoop(_, _, _, _)
WalkLoop(sq, st, i, tp) ==
    IF i >= numSteps THEN sq
    ELSE LET st2 == WalkReflect(WalkMove(st, tp.step[i]), tp.step[i])
         IN WalkLoop([sq EXCEPT ![i] = st2.currentValue], st2, i + 1, tp)

\* the first loop of enhanceSequenceMelodically, from index i on
RECURSIVE BreakRuns(_, _, _)
BreakRuns(sq, i, tp) ==
    IF i >= numSteps - 1 THEN sq
    ELSE LET diff1 == sq[i] - sq[i - 1]
             diff2 == sq[i - 1] - sq[i - 2]
         IN IF diff1 = diff2 /\ diff1 # 0
            THEN LET v == IF tp.fix[i] = "reverse" THEN sq[i] - diff1
                          ELSE IF tp.fix[i] = "up" THEN sq[i] + 3
                               ELSE sq[i] - 3
                 IN BreakRuns([sq EXCEPT ![i + 1] = v], i + 2, tp)
            ELSE BreakRuns(sq, i + 1, tp)

\* the accent loop of enhanceSequenceMelodically, from accent k on
RECURSIVE Accents(_, _, _)
Accents(sq, k, tp) ==
    IF k > 1 + tp.numAccents THEN sq
    ELSE LET pos == 2 + tp.acc[k].pos
             newValue == sq[pos] + (IF tp.acc[k].up THEN 12 ELSE -12)
         IN Accents(IF newValue >= -12 /\ newValue <= 12
                    THEN [sq EXCEPT ![pos] = newValue] ELSE sq,
                    k + 1, tp)

enhanceSequenceMelodically(sq, tp) == Accents(BreakRuns(sq, 2, tp), 1, tp)

generateRandomWalk(sq, tp) ==
    LET currentValue == tp.start - maxRange
        st0 == [currentValue |-> currentValue,
                prevDirection |-> 0, consecutiveSteps |-> 0]
    IN enhanceSequenceMelodically(
           WalkLoop([sq EXCEPT ![0] = currentValue], st0, 1, tp), tp)

\* generateAscendingPattern (step = 1) and generateDescendingPattern
\* (step = -1) from index i on; tp.rare[i] is the outcome of nextFloat() < 0.2f
RECURSIVE LinePattern(_, _, _, _, _)
LinePattern(sq, currentValue, i, step, tp) ==
    IF i >= numSteps THEN sq
    ELSE LET moved == IF tp.rare[i] THEN currentValue - step ELSE currentValue + step
             v == IF moved < -12 THEN -12 ELSE IF moved > 12 THEN 12 ELSE moved
         IN LinePattern([sq EXCEPT ![i] = v], v, i + 1, step, tp)

generateAscendingPattern(sq, tp) == LinePattern(sq, -6, 0, 1, tp)

\* generateDescendingPattern that starts low and mostly rises
generateDescendingPatternRising(sq, tp) == LinePattern(sq, -6, 0, 1, tp)

generateDescendingPattern(sq, tp) == LinePattern(sq, 6, 0, -1, tp)

\* intervals[] of generateArpeggioPattern
intervals == <<0, 4, 7, 12>>

\* generateArpeggioPattern that drops the root an octave as well
generateArpeggioPatternInvertingRoot(sq, tp) ==
    [i \in Steps |->
        LET value == intervals[tp.intervalIndex[i] + 1]
        IN IF tp.invert[i] THEN value - 12 ELSE value]

generateArpeggioPattern(sq, tp) ==
    [i \in Steps |->
        LET value == intervals[tp.intervalIndex[i] + 1]
        IN IF tp.invert[i] /\ value > 0 THEN value - 12 ELSE value]

\* randomizeSequence that does not restore the saved flags: every step
\* ends up enabled
randomizeSequenceFlagsLost(e, patternType, tp) ==
    LET sq == IF patternType = 1 THEN generateAscendingPattern(e.sequence, tp)
              ELSE IF patternType = 2 THEN generateDescendingPattern(e.sequence, tp)
              ELSE IF patternType = 3 THEN generateArpeggioPattern(e.sequence, tp)
              ELSE generateRandomWalk(e.sequence, tp)
    IN [e EXCEPT !.sequence = sq, !.enabledSteps = [i \in Steps |-> TRUE]]

\* randomizeSequence(patternType); the enabled flags are saved and restored
\* around the generation when in manual step mode
randomizeSequence(e, patternType, tp) ==
    LET savedEnabledStates == e.enabledSteps
        sq == IF patternType = 1 THEN generateAscendingPattern(e.sequence, tp)
              ELSE IF patternType = 2 THEN generateDescendingPattern(e.sequence, tp)
              ELSE IF patternType = 3 THEN generateArpeggioPattern(e.sequence, tp)
              ELSE generateRandomWalk(e.sequence, tp)
        e1 == [e EXCEPT !.sequence = sq]
    IN IF e.manualStepMode
       THEN [e1 EXCEPT !.enabledSteps = savedEnabledStates] ELSE e1

-----------------------------------------------------------------------------
(* The draws the model takes from the random source *)

\* the draws of one loop iteration when every probabilistic test fails
\* and every nextInt returns 0
BaseDraw ==
    [reset |-> FALSE, resetVal |-> 0, brk |-> FALSE, coin |-> TRUE,
     jump |-> 0, stay |-> FALSE, change |-> FALSE, flip |-> FALSE,
     big |-> FALSE, bigSize |-> 0, r |-> "lo", smallSize |-> 0,
     reflect |-> TRUE]

ResetDraws == { [BaseDraw EXCEPT !.reset = TRUE, !.resetVal = v] : v \in {0, 12, 24} }

BreakDraws ==
    { [BaseDraw EXCEPT !.brk = TRUE, !.coin = c, !.jump = j, !.reflect = rf] :
        c \in BOOLEAN, j \in {0, 8}, rf \in BOOLEAN }

StayDraws == { [BaseDraw EXCEPT !.stay = TRUE] }

MoveDraws ==
    { [BaseDraw EXCEPT !.coin = c, !.flip = f, !.change = f, !.big = b,
                       !.bigSize = 6, !.reflect = rf] :
        c \in BOOLEAN, f \in BOOLEAN, b \in BOOLEAN, rf \in BOOLEAN }

StepDraws == ResetDraws \cup BreakDraws \cup StayDraws \cup MoveDraws

AccentDraws ==
    { [numAccents |-> 0, acc |-> <<[pos |-> 0, up |-> TRUE], [pos |-> 0, up |-> TRUE]>>],
      [numAccents |-> 0, acc |-> <<[pos |-> 12, up |-> FALSE], [pos |-> 0, up |-> TRUE]>>],
      [numAccents |-> 1, acc |-> <<[pos |-> 5, up |-> TRUE], [pos |-> 5, up |-> FALSE]>>],
      [numAccents |-> 1, acc |-> <<[pos |-> 0, up |-> FALSE], [pos |-> 12, up |-> TRUE]>>] }

\* outcomes of the first nextInt(25): the walk starts at -12, -10, 0, 10, 12
StartDraws == {0, 2, 12, 22, 24}

\* a random-walk tape: iterations alternate between two draws
WalkTape(s, odd, even, fx, a) ==
    [kind |-> "walk", start |-> s,
     step |-> [i \in 1 .. (numSteps - 1) |-> IF i % 2 = 1 THEN odd ELSE even],
     fix |-> [i \in 2 .. (numSteps - 2) |-> fx],
     numAccents |-> a.numAccents, acc |-> a.acc]

WalkTapes ==
    { WalkTape(s, odd, even, fx, a) :
        s \in StartDraws, odd \in MoveDraws \cup StayDraws, even \in StepDraws,
        fx \in {"reverse", "up", "down"}, a \in AccentDraws }

\* the tape of a walk that resets to 0 at every step and puts two
\* cancelling accents on one step: the all-zero pattern
ZeroTape ==
    WalkTape(12, [BaseDraw EXCEPT !.stay = TRUE],
             [BaseDraw EXCEPT !.reset = TRUE, !.resetVal = 12], "reverse",
             [numAccents |-> 1,
              acc |-> <<[pos |-> 5, up |-> TRUE], [pos |-> 5, up |-> FALSE]>>])

\* as ZeroTape, with a single accent: step 2 is an octave up
AccentTape ==
    [ZeroTape EXCEPT !.numAccents = 0,
                     !.acc = <<[pos |-> 0, up |-> TRUE], [pos |-> 0, up |-> TRUE]>>]

\* tapes of generateAscendingPattern / generateDescendingPattern: every
\* outcome of the sixteen nextFloat() < 0.2f tests
LineTapes == { [kind |-> "line", rare |-> f] : f \in [Steps -> BOOLEAN] }

\* tapes of generateArpeggioPattern: steps alternate between two draws
ArpTapes ==
    { [kind |-> "arp",
       intervalIndex |-> [i \in Steps |-> IF i % 2 = 0 THEN a ELSE b],
       invert |-> [i \in Steps |-> IF i % 2 = 0 THEN ia ELSE ib]] :
        a \in 0 .. 3, b \in 0 .. 3, ia \in BOOLEAN, ib \in BOOLEAN }

\* the pattern types whose generator consumes a tape of the given kind
PatternTypesOf(kind) ==
    IF kind = "line" THEN {1, 2} ELSE IF kind = "arp" THEN {3} ELSE {0, 4}

-----------------------------------------------------------------------------
(* Timing model *)

NoPlayHead == [present |-> FALSE, bpm |-> 0, isPlaying |-> FALSE]

getRateInSeconds(e) == [num |-> RateNum[e.rateValue + 1], den |-> RateDen[e.rateValue + 1]]

\* the transport part of updateTimingInfo: follow the host when synced
HostTransport(e, ph) ==
    IF ph.isPlaying /\ ~e.isPlaying
    THEN [e EXCEPT !.isPlaying = TRUE, !.currentStep = numSteps - 1,
                   !.sampleCounter = 0, !.noteIsOn = FALSE]
    ELSE IF ~ph.isPlaying /\ e.isPlaying
    THEN [e EXCEPT !.isPlaying = FALSE, !.noteIsOn = FALSE]
    ELSE e

\* updateTimingInfo that follows the host whenever it reports, synced or not
updateTimingInfoAlwaysFollowing(e, ph) ==
    LET oldBpm == e.bpm
        e1 == IF ph.present
              THEN HostTransport([e EXCEPT !.bpm = ph.bpm], ph)
              ELSE IF ~e.syncToHostTransport
                   THEN [e EXCEPT !.bpm = e.internalBpm]
                   ELSE e
        e2 == IF Abs(oldBpm - e1.bpm) * 100 > 1
              THEN [e1 EXCEPT !.sampleCounter = 0] ELSE e1
        spb == (60 * e2.sampleRate * TicksPerSample) \div e2.bpm
        rate == getRateInSeconds(e2)
    IN [e2 EXCEPT !.samplesPerBeat = spb,
                  !.stepDuration = (spb * rate.num) \div rate.den]

updateTimingInfo(e, ph) ==
    LET oldBpm == e.bpm
        e1 == IF ph.present /\ e.syncToHostTransport
              THEN HostTransport([e EXCEPT !.bpm = ph.bpm], ph)
              ELSE IF ~e.syncToHostTransport
                   THEN [e EXCEPT !.bpm = e.internalBpm]
                   ELSE e
        e2 == IF Abs(oldBpm - e1.bpm) * 100 > 1
              THEN [e1 EXCEPT !.sampleCounter = 0] ELSE e1
        spb == (60 * e2.sampleRate * TicksPerSample) \div e2.bpm
        rate == getRateInSeconds(e2)
    IN [e2 EXCEPT !.samplesPerBeat = spb,
                  !.stepDuration = (spb * rate.num) \div rate.den]

\* getNoteLength that ignores the gate: the whole step
getNoteLengthWholeStep(e) == e.stepDuration

getNoteLength(e) == (e.stepDuration * e.gateValue) \div GateScale

getNoteForStep(e, step) == e.rootValue + e.sequence[step]

-----------------------------------------------------------------------------
(* Construction *)

RandomWalkSequencer(tp) ==
    LET e0 == [rateValue |-> 3, densityValue |-> 8, offsetValue |-> 0,
               gateValue |-> 50, rootValue |-> 72,
               sampleRate |-> 44100, bpm |-> 120, internalBpm |-> 120,
               enabledSteps |-> [i \in Steps |-> TRUE],
               sequence |-> [i \in Steps |-> 0],
               manualStepMode |-> FALSE,
               currentStep |-> 0, isPlaying |-> FALSE,
               samplesPerBeat |-> 0, sampleCounter |-> 0, stepDuration |-> 0,
               noteIsOn |-> FALSE, lastNoteValue |-> 0,
               syncToHostTransport |-> FALSE]
        e1 == updateTimingInfo(e0, NoPlayHead)
    IN [e1 EXCEPT !.sequence = generateRandomWalk(e1.sequence, tp)]

-----------------------------------------------------------------------------
(* MIDI buffers.  An event is [type, note, velocity, samplePosition].      *)

\* number of leading events of buf that stay in front of an event added at
\* position p: MidiBuffer::addEvent keeps the buffer ordered by position and
\* puts a new event behind those already at its position
RECURSIVE InsertIndex(_, _, _)
InsertIndex(buf, p, k) ==
    IF k < Len(buf) /\ buf[k + 1].samplePosition <= p
    THEN InsertIndex(buf, p, k + 1) ELSE k

addEvent(buf, ev) ==
    LET k == InsertIndex(buf, ev.samplePosition, 0)
    IN SubSeq(buf, 1, k) \o <<ev>> \o SubSeq(buf, k + 1, Len(buf))

noteOff(note, p) ==
    [type |-> "noteOff", note |-> note, velocity |-> 0, samplePosition |-> p]

noteOn(note, vel, p) ==
    [type |-> "noteOn", note |-> note, velocity |-> Min(vel, 127), samplePosition |-> p]

-----------------------------------------------------------------------------
(* processBlock.  The walk state w is [eng, samplePosition, processedMidi, *)
(* steps]; steps lists every actualStepIndex the block computed.           *)

\* AdvanceStep without the wrap of the offset-adjusted index (a pattern
\* read past the end yields 0)
AdvanceStepNoWrap(w) ==
    LET e == w.eng
        buf1 == IF e.noteIsOn
                THEN addEvent(w.processedMidi, noteOff(e.lastNoteValue, w.samplePosition))
                ELSE w.processedMidi
        nextStep == IF e.manualStepMode
                    THEN CMod(e.currentStep + 1, numSteps)
                    ELSE CMod(e.currentStep + 1, e.densityValue)
        actualStepIndex == nextStep + e.offsetValue
        inside == actualStepIndex \in Steps
        shouldPlayNote == IF e.manualStepMode
                          THEN (IF inside THEN e.enabledSteps[actualStepIndex] ELSE TRUE)
                          ELSE TRUE
        e1 == [e EXCEPT !.sampleCounter = e.sampleCounter - e.stepDuration,
                        !.noteIsOn = FALSE,
                        !.currentStep = nextStep]
        value == IF inside THEN e1.sequence[actualStepIndex] ELSE 0
        noteValue == e1.rootValue + value
        velocity == 80 + (30 * Abs(value)) \div 12
    IN IF shouldPlayNote
       THEN [w EXCEPT !.eng = [e1 EXCEPT !.lastNoteValue = noteValue,
                                         !.noteIsOn = TRUE],
                      !.processedMidi =
                          addEvent(buf1, noteOn(noteValue, velocity, w.samplePosition)),
                      !.steps = Append(w.steps, actualStepIndex)]
       ELSE [w EXCEPT !.eng = e1, !.processedMidi = buf1,
                      !.steps = Append(w.steps, actualStepIndex)]

\* AdvanceStep that loops over the density range in manual mode too
AdvanceStepByDensity(w) ==
    LET e == w.eng
        buf1 == IF e.noteIsOn
                THEN addEvent(w.processedMidi, noteOff(e.lastNoteValue, w.samplePosition))
                ELSE w.processedMidi
        nextStep == CMod(e.currentStep + 1, e.densityValue)
        actualStepIndex == CMod(nextStep + e.offsetValue, numSteps)
        shouldPlayNote == IF e.manualStepMode
                          THEN e.enabledSteps[actualStepIndex] ELSE TRUE
        e1 == [e EXCEPT !.sampleCounter = e.sampleCounter - e.stepDuration,
                        !.noteIsOn = FALSE,
                        !.currentStep = nextStep]
        noteValue == getNoteForStep(e1, actualStepIndex)
        velocity == 80 + (30 * Abs(e1.sequence[actualStepIndex])) \div 12
    IN IF shouldPlayNote
       THEN [w EXCEPT !.eng = [e1 EXCEPT !.lastNoteValue = noteValue,
                                         !.noteIsOn = TRUE],
                      !.processedMidi =
                          addEvent(buf1, noteOn(noteValue, velocity, w.samplePosition)),
                      !.steps = Append(w.steps, actualStepIndex)]
       ELSE [w EXCEPT !.eng = e1, !.processedMidi = buf1,
                      !.steps = Append(w.steps, actualStepIndex)]

\* AdvanceStep that loops over all sixteen steps in density mode too
AdvanceStepThroughAll(w) ==
    LET e == w.eng
        buf1 == IF e.noteIsOn
                THEN addEvent(w.processedMidi, noteOff(e.lastNoteValue, w.samplePosition))
                ELSE w.processedMidi
        nextStep == CMod(e.currentStep + 1, numSteps)
        actualStepIndex == CMod(nextStep + e.offsetValue, numSteps)
        shouldPlayNote == IF e.manualStepMode
                          THEN e.enabledSteps[actualStepIndex] ELSE TRUE
        e1 == [e EXCEPT !.sampleCounter = e.sampleCounter - e.stepDuration,
                        !.noteIsOn = FALSE,
                        !.currentStep = nextStep]
        noteValue == getNoteForStep(e1, actualStepIndex)
        velocity == 80 + (30 * Abs(e1.sequence[actualStepIndex])) \div 12
    IN IF shouldPlayNote
       THEN [w EXCEPT !.eng = [e1 EXCEPT !.lastNoteValue = noteValue,
                                         !.noteIsOn = TRUE],
                      !.processedMidi =
                          addEvent(buf1, noteOn(noteValue, velocity, w.samplePosition)),
                      !.steps = Append(w.steps, actualStepIndex)]
       ELSE [w EXCEPT !.eng = e1, !.processedMidi = buf1,
                      !.steps = Append(w.steps, actualStepIndex)]

\* AdvanceStep with the velocity rounded to the nearest integer
AdvanceStepRounding(w) ==
    LET e == w.eng
        buf1 == IF e.noteIsOn
                THEN addEvent(w.processedMidi, noteOff(e.lastNoteValue, w.samplePosition))
                ELSE w.processedMidi
        nextStep == IF e.manualStepMode
                    THEN CMod(e.currentStep + 1, numSteps)
                    ELSE CMod(e.currentStep + 1, e.densityValue)
        actualStepIndex == CMod(nextStep + e.offsetValue, numSteps)
        shouldPlayNote == IF e.manualStepMode
                          THEN e.enabledSteps[actualStepIndex] ELSE TRUE
        e1 == [e EXCEPT !.sampleCounter = e.sampleCounter - e.stepDuration,
                        !.noteIsOn = FALSE,
                        !.currentStep = nextStep]
        noteValue == getNoteForStep(e1, actualStepIndex)
        velocity == 80 + (30 * Abs(e1.sequence[actualStepIndex]) + 6) \div 12
    IN IF shouldPlayNote
       THEN [w EXCEPT !.eng = [e1 EXCEPT !.lastNoteValue = noteValue,
                                         !.noteIsOn = TRUE],
                      !.processedMidi =
                          addEvent(buf1, noteOn(noteValue, velocity, w.samplePosition)),
                      !.steps = Append(w.steps, actualStepIndex)]
       ELSE [w EXCEPT !.eng = e1, !.processedMidi = buf1,
                      !.steps = Append(w.steps, actualStepIndex)]

\* the step-advance branch of the segment loop
AdvanceStep(w) ==
    LET e == w.eng
        buf1 == IF e.noteIsOn
                THEN addEvent(w.processedMidi, noteOff(e.lastNoteValue, w.samplePosition))
                ELSE w.processedMidi
        nextStep == IF e.manualStepMode
                    THEN CMod(e.currentStep + 1, numSteps)
                    ELSE CMod(e.currentStep + 1, e.densityValue)
        actualStepIndex == CMod(nextStep + e.offsetValue, numSteps)
        shouldPlayNote == IF e.manualStepMode
                          THEN e.enabledSteps[actualStepIndex] ELSE TRUE
        e1 == [e EXCEPT !.sampleCounter = e.sampleCounter - e.stepDuration,
                        !.noteIsOn = FALSE,
                        !.currentStep = nextStep]
        noteValue == getNoteForStep(e1, actualStepIndex)
        velocity == 80 + (30 * Abs(e1.sequence[actualStepIndex])) \div 12
    IN IF shouldPlayNote
       THEN [w EXCEPT !.eng = [e1 EXCEPT !.lastNoteValue = noteValue,
                                         !.noteIsOn = TRUE],
                      !.processedMidi =
                          addEvent(buf1, noteOn(noteValue, velocity, w.samplePosition)),
                      !.steps = Append(w.steps, actualStepIndex)]
       ELSE [w EXCEPT !.eng = e1, !.processedMidi = buf1,
                      !.steps = Append(w.steps, actualStepIndex)]

\* GateAndAdvance whose segment is not limited to the rest of the block
GateAndAdvanceUnclamped(w, numSamples) ==
    LET e == w.eng
        samplesThisSegment == CDiv(e.stepDuration - e.sampleCounter, TicksPerSample)
        gateReached ==
            e.noteIsOn
            /\ e.sampleCounter + samplesThisSegment * TicksPerSample >= getNoteLength(e)
        noteOffPosition ==
            Min(w.samplePosition + CDiv(getNoteLength(e) - e.sampleCounter, TicksPerSample),
                numSamples - 1)
        advance == IF samplesThisSegment <= 0 THEN 1 ELSE samplesThisSegment
    IN [w EXCEPT !.eng = [e EXCEPT !.noteIsOn = IF gateReached THEN FALSE ELSE @,
                                   !.sampleCounter = @ + advance * TicksPerSample],
                 !.processedMidi =
                     IF gateReached
                     THEN addEvent(@, noteOff(e.lastNoteValue, noteOffPosition))
                     ELSE @,
                 !.samplePosition = @ + advance]

\* GateAndAdvance with the gate note-off placed one sample early
GateAndAdvanceEarly(w, numSamples) ==
    LET e == w.eng
        samplesThisSegment ==
            Min(numSamples - w.samplePosition,
                CDiv(e.stepDuration - e.sampleCounter, TicksPerSample))
        gateReached ==
            e.noteIsOn
            /\ e.sampleCounter + samplesThisSegment * TicksPerSample >= getNoteLength(e)
        noteOffPosition ==
            Min(w.samplePosition
                    + CDiv(getNoteLength(e) - e.sampleCounter, TicksPerSample) - 1,
                numSamples - 1)
        advance == IF samplesThisSegment <= 0 THEN 1 ELSE samplesThisSegment
    IN [w EXCEPT !.eng = [e EXCEPT !.noteIsOn = IF gateReached THEN FALSE ELSE @,
                                   !.sampleCounter = @ + advance * TicksPerSample],
                 !.processedMidi =
                     IF gateReached
                     THEN addEvent(@, noteOff(e.lastNoteValue, noteOffPosition))
                     ELSE @,
                 !.samplePosition = @ + advance]

\* the gate test and the counter advance of one loop iteration
GateAndAdvance(w, numSamples) ==
    LET e == w.eng
        samplesThisSegment ==
            Min(numSamples - w.samplePosition,
                CDiv(e.stepDuration - e.sampleCounter, TicksPerSample))
        gateReached ==
            e.noteIsOn
            /\ e.sampleCounter + samplesThisSegment * TicksPerSample >= getNoteLength(e)
        noteOffPosition ==
            Min(w.samplePosition + CDiv(getNoteLength(e) - e.sampleCounter, TicksPerSample),
                numSamples - 1)
        advance == IF samplesThisSegment <= 0 THEN 1 ELSE samplesThisSegment
    IN [w EXCEPT !.eng = [e EXCEPT !.noteIsOn = IF gateReached THEN FALSE ELSE @,
                                   !.sampleCounter = @ + advance * TicksPerSample],
                 !.processedMidi =
                     IF gateReached
                     THEN addEvent(@, noteOff(e.lastNoteValue, noteOffPosition))
                     ELSE @,
                 !.samplePosition = @ + advance]

\* the while loop with the step-advance test written > instead of >=
RECURSIVE SegmentsStrict(_, _)
SegmentsStrict(w, numSamples) ==
    IF w.samplePosition >= numSamples THEN w
    ELSE LET w1 == IF w.eng.sampleCounter > w.eng.stepDuration
                   THEN AdvanceStep(w) ELSE w
         IN SegmentsStrict(GateAndAdvance(w1, numSamples), numSamples)

\* the while loop of processBlock
RECURSIVE Segments(_, _)
Segments(w, numSamples) ==
    IF w.samplePosition >= numSamples THEN w
    ELSE LET w1 == IF w.eng.sampleCounter >= w.eng.stepDuration
                   THEN AdvanceStep(w) ELSE w
         IN Segments(GateAndAdvance(w1, numSamples), numSamples)

\* processBlock(buffer, midiMessages) with buffer.getNumSamples() = numSamples
\* and midiIn the inbound events; the result's processedMidi is what
\* midiMessages holds on return
\* the loop that copies the incoming events into processedMidi
RECURSIVE PassThrough(_, _)
PassThrough(processedMidi, midiIn) ==
    IF midiIn = <<>> THEN processedMidi
    ELSE PassThrough(addEvent(processedMidi, Head(midiIn)), Tail(midiIn))

\* processBlock that counts every block from the start of a step
processBlockFromStepStart(e, ph, numSamples, midiIn) ==
    LET e1 == [updateTimingInfo(e, ph) EXCEPT !.sampleCounter = 0]
        w0 == [eng |-> e1, samplePosition |-> 0,
               processedMidi |-> PassThrough(<<>>, midiIn), steps |-> <<>>]
    IN IF e1.sampleRate > 0 /\ e1.stepDuration > 0 /\ e1.isPlaying
       THEN Segments(w0, numSamples)
       ELSE IF e1.noteIsOn
            THEN [w0 EXCEPT !.eng.noteIsOn = FALSE,
                            !.processedMidi = addEvent(@, noteOff(e1.lastNoteValue, 0))]
            ELSE w0

\* processBlock that starts from an empty output buffer
processBlockGeneratedOnly(e, ph, numSamples, midiIn) ==
    LET e1 == updateTimingInfo(e, ph)
        w0 == [eng |-> e1, samplePosition |-> 0, processedMidi |-> <<>>,
               steps |-> <<>>]
    IN IF e1.sampleRate > 0 /\ e1.stepDuration > 0 /\ e1.isPlaying
       THEN Segments(w0, numSamples)
       ELSE IF e1.noteIsOn
            THEN [w0 EXCEPT !.eng.noteIsOn = FALSE,
                            !.processedMidi = addEvent(@, noteOff(e1.lastNoteValue, 0))]
            ELSE w0

processBlock(e, ph, numSamples, midiIn) ==
    LET e1 == updateTimingInfo(e, ph)
        w0 == [eng |-> e1, samplePosition |-> 0,
               processedMidi |-> PassThrough(<<>>, midiIn), steps |-> <<>>]
    IN IF e1.sampleRate > 0 /\ e1.stepDuration > 0 /\ e1.isPlaying
       THEN Segments(w0, numSamples)
       ELSE IF e1.noteIsOn
            THEN [w0 EXCEPT !.eng.noteIsOn = FALSE,
                            !.processedMidi = addEvent(@, noteOff(e1.lastNoteValue, 0))]
            ELSE w0

-----------------------------------------------------------------------------
(* Transport and parameter methods *)

\* setPlaying without the test that the state is actually changing
setPlayingAlways(e, shouldPlay) ==
    LET e1 == IF shouldPlay
              THEN [e EXCEPT !.isPlaying = TRUE, !.sampleCounter = 0,
                             !.currentStep = numSteps - 1,
                             !.noteIsOn = FALSE]
              ELSE [e EXCEPT !.isPlaying = FALSE]
    IN IF ~shouldPlay /\ e1.noteIsOn
       THEN [e1 EXCEPT !.noteIsOn = FALSE] ELSE e1

\* The note-off messages setPlaying builds go into a MidiBuffer local to
\* the call (tempBuffer), which is dropped on return: only the flag changes.
setPlaying(e, shouldPlay) ==
    LET e1 == IF e.isPlaying # shouldPlay
              THEN IF shouldPlay
                   THEN [e EXCEPT !.isPlaying = TRUE, !.sampleCounter = 0,
                                  !.currentStep = numSteps - 1,
                                  !.noteIsOn = FALSE]
                   ELSE [e EXCEPT !.isPlaying = FALSE]
              ELSE e
    IN IF ~shouldPlay /\ e1.noteIsOn
       THEN [e1 EXCEPT !.noteIsOn = FALSE] ELSE e1

setRate(e, ph, value) == updateTimingInfo([e EXCEPT !.rateValue = value], ph)

\* setRate with an index outside the table: rateValues[rateValue] is read
\* past the array and yields whatever lies there, junk
setRateOutsideTable(e, ph, value, junk) ==
    LET e1 == updateTimingInfo([e EXCEPT !.rateValue = 0], ph)
    IN [e1 EXCEPT !.rateValue = value,
                  !.stepDuration = (e1.samplesPerBeat * junk.num) \div junk.den]

setDensity(e, value) ==
    IF e.densityValue # value
    THEN [e EXCEPT !.densityValue = value,
                   !.currentStep = IF e.currentStep >= value THEN 0 ELSE @]
    ELSE e

setOffset(e, value) == [e EXCEPT !.offsetValue = value]

setGate(e, value) == [e EXCEPT !.gateValue = value]

setRoot(e, value) == [e EXCEPT !.rootValue = value]

resetEnabledSteps(e) == [e EXCEPT !.enabledSteps = [i \in Steps |-> TRUE]]

\* setManualStepMode without the reset of the flags on leaving manual mode
setManualStepModeKeep(e, isManual) == [e EXCEPT !.manualStepMode = isManual]

setManualStepMode(e, isManual) ==
    LET e1 == [e EXCEPT !.manualStepMode = isManual]
    IN IF ~isManual THEN resetEnabledSteps(e1) ELSE e1

toggleStepEnabled(e, step) ==
    IF step >= 0 /\ step < numSteps
    THEN [e EXCEPT !.enabledSteps[step] = ~@] ELSE e

isStepEnabled(e, step) ==
    IF step >= 0 /\ step < numSteps THEN e.enabledSteps[step] ELSE FALSE

\* setSequenceValue storing the value as given
setSequenceValueAsGiven(e, step, value) ==
    IF step >= 0 /\ step < numSteps
    THEN [e EXCEPT !.sequence[step] = value] ELSE e

setSequenceValue(e, step, value) ==
    IF step >= 0 /\ step < numSteps
    THEN [e EXCEPT !.sequence[step] = jlimit(-12, 12, value)] ELSE e

transposeOctaveUp(e) ==
    IF e.rootValue <= 108 THEN [e EXCEPT !.rootValue = @ + 12] ELSE e

transposeOctaveDown(e) ==
    IF e.rootValue >= 24 THEN [e EXCEPT !.rootValue = @ - 12] ELSE e

\* setMonoMode that also leaves manual step mode
setMonoModeLeavingManual(e) ==
    [e EXCEPT !.sequence = [i \in Steps |-> 0], !.manualStepMode = FALSE]

setMonoMode(e) == [e EXCEPT !.sequence = [i \in Steps |-> 0]]

setSyncToHostTransport(e, shouldSync) == [e EXCEPT !.syncToHostTransport = shouldSync]

setInternalBpm(e, ph, newBpm) ==
    LET e1 == [e EXCEPT !.internalBpm = jlimit(30, 300, newBpm)]
    IN IF ~e1.syncToHostTransport
       THEN updateTimingInfo([e1 EXCEPT !.bpm = e1.internalBpm], ph)
       ELSE e1

prepareToPlay(e, ph, sampleRateToUse) ==
    updateTimingInfo([e EXCEPT !.sampleRate = sampleRateToUse,
                               !.currentStep = 0, !.sampleCounter = 0,
                               !.noteIsOn = FALSE], ph)

\* releaseResources that leaves the note flag alone
releaseResourcesKeepingNote(e) == [e EXCEPT !.isPlaying = FALSE]

\* as in setPlaying, the note-off goes into a local buffer and is dropped
releaseResources(e) == [e EXCEPT !.isPlaying = FALSE, !.noteIsOn = FALSE]

-----------------------------------------------------------------------------
(* State document.  Attribute values are text, a sequence of characters;   *)
(* a document is [valid, tag, attr, hasSequence, step, enabled] where      *)
(* attr, step and enabled are functions from the attributes present to     *)
(* their text, and valid tells whether getXmlFromBinary can parse it.      *)

Digits == <<"0", "1", "2", "3", "4", "5", "6", "7", "8", "9">>

IsDigit(c) == \E d \in 1 .. 10 : Digits[d] = c

DigitVal(c) == (CHOOSE d \in 1 .. 10 : Digits[d] = c) - 1

RECURSIVE NatToText(_)
NatToText(n) ==
    IF n < 10 THEN <<Digits[n + 1]>>
    ELSE NatToText(n \div 10) \o <<Digits[(n % 10) + 1]>>

\* String (int)
IntToText(n) == IF n < 0 THEN <<"-">> \o NatToText(-n) ELSE NatToText(n)

\* value of the leading digits of t, continuing from acc
RECURSIVE ReadDigits(_, _)
ReadDigits(t, acc) ==
    IF t = <<>> \/ ~IsDigit(Head(t)) THEN acc
    ELSE ReadDigits(Tail(t), 10 * acc + DigitVal(Head(t)))

RECURSIVE SkipDigits(_)
SkipDigits(t) == IF t = <<>> \/ ~IsDigit(Head(t)) THEN t ELSE SkipDigits(Tail(t))

\* String::getIntValue: optional sign, then the leading digits
TextToInt(t) ==
    IF t # <<>> /\ Head(t) = "-" THEN -ReadDigits(Tail(t), 0)
    ELSE ReadDigits(t, 0)

\* setAttribute (name, bool) takes the int overload
BoolToText(b) == IntToText(IF b THEN 1 ELSE 0)

\* getBoolAttribute: true when the text starts with 1, t, y, T or Y
TextToBool(t) == t # <<>> /\ Head(t) \in {"1", "t", "y", "T", "Y"}

\* text of a double holding v / scale, scale being 1 or 100
FixedToText(v, scale) ==
    LET whole == NatToText(v \div scale)
        frac == v % scale
    IN IF scale = 1 \/ frac = 0 THEN whole \o <<".", "0">>
       ELSE IF frac % 10 = 0 THEN whole \o <<".", Digits[(frac \div 10) + 1]>>
            ELSE whole \o <<".", Digits[(frac \div 10) + 1], Digits[(frac % 10) + 1]>>

\* getDoubleAttribute, to the model's resolution of 1 / scale
TextToFixed(t, scale) ==
    LET rest == SkipDigits(t)
        fr == IF rest # <<>> /\ Head(rest) = "." THEN Tail(rest) ELSE <<>>
        d1 == IF Len(fr) >= 1 /\ IsDigit(fr[1]) THEN DigitVal(fr[1]) ELSE 0
        d2 == IF Len(fr) >= 2 /\ IsDigit(fr[1]) /\ IsDigit(fr[2]) THEN DigitVal(fr[2]) ELSE 0
    IN ReadDigits(t, 0) * scale + (IF scale = 100 THEN 10 * d1 + d2 ELSE 0)

StateTag == "RandomWalkSequencerState"

\* data that getXmlFromBinary cannot parse
NoXml == [valid |-> FALSE]

getStateInformation(e) ==
    [valid |-> TRUE, tag |-> StateTag,
     attr |-> [rate |-> IntToText(e.rateValue),
               density |-> IntToText(e.densityValue),
               offset |-> IntToText(e.offsetValue),
               gate |-> FixedToText(e.gateValue, GateScale),
               root |-> IntToText(e.rootValue),
               manualStepMode |-> BoolToText(e.manualStepMode)],
     hasSequence |-> TRUE,
     step |-> [i \in Steps |-> IntToText(e.sequence[i])],
     enabled |-> [i \in Steps |-> BoolToText(e.enabledSteps[i])]]

\* getIntAttribute / getDoubleAttribute / getBoolAttribute with a default
IntAttr(doc, name, def) ==
    IF name \in DOMAIN doc.attr THEN TextToInt(doc.attr[name]) ELSE def

FixedAttr(doc, name, scale, def) ==
    IF name \in DOMAIN doc.attr THEN TextToFixed(doc.attr[name], scale) ELSE def

BoolAttr(doc, name, def) ==
    IF name \in DOMAIN doc.attr THEN TextToBool(doc.attr[name]) ELSE def

\* setStateInformation without the test of the top-level tag
setStateInformationAnyTag(e, doc) ==
    IF doc.valid
    THEN [e EXCEPT
            !.rateValue = IntAttr(doc, "rate", 1),
            !.densityValue = IntAttr(doc, "density", 16),
            !.offsetValue = IntAttr(doc, "offset", 0),
            !.gateValue = FixedAttr(doc, "gate", GateScale, 50),
            !.rootValue = IntAttr(doc, "root", 72),
            !.manualStepMode = BoolAttr(doc, "manualStepMode", FALSE),
            !.internalBpm = FixedAttr(doc, "internalBpm", 1, 120),
            !.sequence = [i \in Steps |->
                            IF doc.hasSequence /\ i \in DOMAIN doc.step
                            THEN TextToInt(doc.step[i]) ELSE e.sequence[i]],
            !.enabledSteps = [i \in Steps |->
                            IF doc.hasSequence /\ i \in DOMAIN doc.enabled
                            THEN TextToBool(doc.enabled[i]) ELSE e.enabledSteps[i]]]
    ELSE e

setStateInformation(e, doc) ==
    IF doc.valid /\ doc.tag = StateTag
    THEN [e EXCEPT
            !.rateValue = IntAttr(doc, "rate", 1),
            !.densityValue = IntAttr(doc, "density", 16),
            !.offsetValue = IntAttr(doc, "offset", 0),
            !.gateValue = FixedAttr(doc, "gate", GateScale, 50),
            !.rootValue = IntAttr(doc, "root", 72),
            !.manualStepMode = BoolAttr(doc, "manualStepMode", FALSE),
            !.internalBpm = FixedAttr(doc, "internalBpm", 1, 120),
            !.sequence = [i \in Steps |->
                            IF doc.hasSequence /\ i \in DOMAIN doc.step
                            THEN TextToInt(doc.step[i]) ELSE e.sequence[i]],
            !.enabledSteps = [i \in Steps |->
                            IF doc.hasSequence /\ i \in DOMAIN doc.enabled
                            THEN TextToBool(doc.enabled[i]) ELSE e.enabledSteps[i]]]
    ELSE e

-----------------------------------------------------------------------------
(* Bounds and input sets *)

MaxBlocks == 3

MaxCalls == 3

BlockSizes == {1025, 10000}

Rates == {6}

Densities == {1, 3, 16}

Offsets == {7, 15}

InternalBpms == {60, 140}

Gates == {10}

\* session documents a host restores right after construction: documents
\* getStateInformation wrote in an earlier session
E2ESession ==
    getStateInformation(
        setRoot(setDensity(setRate(RandomWalkSequencer(ZeroTape), NoPlayHead, 6), 1), 60))

LegatoSession == getStateInformation(setGate(RandomWalkSequencer(AccentTape), 100))

ManualSession ==
    getStateInformation(
        toggleStepEnabled(setManualStepMode(setOffset(RandomWalkSequencer(AccentTape), 3), TRUE), 4))

SessionDocs == {E2ESession, LegatoSession, ManualSession}

InitTapes == {ZeroTape}

InitEngines ==
    { RandomWalkSequencer(tp) : tp \in InitTapes }
    \cup { setStateInformation(RandomWalkSequencer(ZeroTape), doc) : doc \in SessionDocs }

-----------------------------------------------------------------------------
(* Specification of the processor driven by the host and the editor *)

NoOp == [op |-> "construct", arg |-> 0, wasPlaying |-> FALSE, wasNoteOn |-> FALSE,
         steps |-> <<>>]

\* neither thread is inside a call
NoThreads == [ui |-> [pc |-> "idle", value |-> 0],
              audio |-> [pc |-> "idle", step |-> -1, density |-> -1]]

Init ==
    /\ eng \in InitEngines
    /\ playHead = NoPlayHead
    /\ midiMessages = <<>>
    /\ log = <<>>
    /\ clock = 0
    /\ lastOp = NoOp
    /\ blocks = 0
    /\ calls = 0
    /\ playStart = -1
    /\ tape = ZeroTape
    /\ destData = NoXml
    /\ reloaded = RandomWalkSequencer(ZeroTape)
    /\ threads = NoThreads

\* the state after construction, or after construction and the restore of
\* a session, of one of the given processors
InitOf(engines) ==
    /\ eng \in engines
    /\ playHead = NoPlayHead
    /\ midiMessages = <<>>
    /\ log = <<>>
    /\ clock = 0
    /\ lastOp = NoOp
    /\ blocks = 0
    /\ calls = 0
    /\ playStart = -1
    /\ tape = ZeroTape
    /\ destData = NoXml
    /\ reloaded = RandomWalkSequencer(ZeroTape)
    /\ threads = NoThreads

\* playStart after a step that takes the processor from e to e2
Started(e, e2) == IF ~e.isPlaying /\ e2.isPlaying THEN clock ELSE playStart

\* a call op(arg) from the message thread that leaves the processor as e2
Did(op, arg, e2) ==
    /\ calls < MaxCalls
    /\ calls' = calls + 1
    /\ eng' = e2
    /\ playStart' = Started(eng, e2)
    /\ lastOp' = [op |-> op, arg |-> arg, wasPlaying |-> eng.isPlaying,
                  wasNoteOn |-> eng.noteIsOn, steps |-> <<>>]
    /\ UNCHANGED <<playHead, midiMessages, log, clock, blocks, tape, destData, reloaded, threads>>

SetPlaying == \E b \in BOOLEAN : Did("setPlaying", b, setPlaying(eng, b))

SetRate == \E v \in Rates : Did("setRate", v, setRate(eng, playHead, v))

SetDensity == \E v \in Densities : Did("setDensity", v, setDensity(eng, v))

SetOffset == \E v \in Offsets : Did("setOffset", v, setOffset(eng, v))

SetGate == \E v \in Gates : Did("setGate", v, setGate(eng, v))

\* the events of one returned buffer, stamped with their absolute time
Stamp(buf, t0, n) ==
    [k \in 1 .. Len(buf) |->
        [type |-> buf[k].type, note |-> buf[k].note,
         samplePosition |-> buf[k].samplePosition, numSamples |-> n,
         time |-> t0 + buf[k].samplePosition]]

ProcessBlock ==
    \E n \in BlockSizes :
        LET w == processBlock(eng, playHead, n, <<>>)
        IN /\ blocks < MaxBlocks
           /\ eng' = w.eng
           /\ midiMessages' = w.processedMidi
           /\ log' = log \o Stamp(w.processedMidi, clock, n)
           /\ playStart' = Started(eng, w.eng)
           /\ clock' = clock + n
           /\ blocks' = blocks + 1
           /\ lastOp' = [op |-> "processBlock", arg |-> n, wasPlaying |-> eng.isPlaying,
                         wasNoteOn |-> eng.noteIsOn, steps |-> w.steps]
           /\ UNCHANGED <<playHead, calls, tape, destData, reloaded, threads>>

Next ==
    \/ SetPlaying
    \/ SetRate
    \/ SetDensity
    \/ SetOffset
    \/ SetGate
    \/ ProcessBlock

Spec == Init /\ [][Next]_vars

-----------------------------------------------------------------------------
(* Specification of the pattern generators: the tape is drawn at the       *)
(* start, and the editor asks once for a new pattern.                      *)

Tapes == WalkTapes \cup LineTapes \cup ArpTapes

InitGen ==
    /\ Init
    /\ eng \in { RandomWalkSequencer(tp) : tp \in InitTapes }

RandomizeSequence ==
    /\ lastOp.op = "construct"
    /\ \E tp \in Tapes :
        \E patternType \in PatternTypesOf(tp.kind) :
            /\ tape' = tp
            /\ eng' = randomizeSequence(eng, patternType, tp)
            /\ lastOp' = [op |-> "randomizeSequence", arg |-> patternType,
                          wasPlaying |-> eng.isPlaying, wasNoteOn |-> eng.noteIsOn,
                          steps |-> <<>>]
    /\ UNCHANGED <<playHead, midiMessages, log, clock, blocks, calls, playStart,
                   destData, reloaded, threads>>

NextGen == RandomizeSequence

SpecGen == InitGen /\ [][NextGen]_vars

-----------------------------------------------------------------------------
(* Specification of saving and restoring: the editor sets parameters, the  *)
(* host saves the state and loads it into a newly constructed processor.   *)

SetManualStepMode == \E b \in BOOLEAN : Did("setManualStepMode", b, setManualStepMode(eng, b))

ToggleStepEnabled == \E i \in {0} : Did("toggleStepEnabled", i, toggleStepEnabled(eng, i))

SetInternalBpm == \E v \in InternalBpms : Did("setInternalBpm", v, setInternalBpm(eng, playHead, v))

SetRoot == \E v \in {60} : Did("setRoot", v, setRoot(eng, v))

GetStateInformation ==
    /\ destData = NoXml
    /\ destData' = getStateInformation(eng)
    /\ lastOp' = [op |-> "getStateInformation", arg |-> 0,
                  wasPlaying |-> eng.isPlaying, wasNoteOn |-> eng.noteIsOn,
                  steps |-> <<>>]
    /\ UNCHANGED <<eng, playHead, midiMessages, log, clock, blocks, calls,
                   playStart, tape, reloaded, threads>>

\* setStateInformation on a new processor, whose own random pattern is
\* that of AccentTape
SetStateInformation ==
    /\ lastOp.op = "getStateInformation"
    /\ reloaded' = setStateInformation(RandomWalkSequencer(AccentTape), destData)
    /\ lastOp' = [op |-> "setStateInformation", arg |-> 0,
                  wasPlaying |-> eng.isPlaying, wasNoteOn |-> eng.noteIsOn,
                  steps |-> <<>>]
    /\ UNCHANGED <<eng, playHead, midiMessages, log, clock, blocks, calls,
                   playStart, tape, destData, threads>>

NextState ==
    \/ SetRate
    \/ SetDensity
    \/ SetOffset
    \/ SetGate
    \/ SetRoot
    \/ SetManualStepMode
    \/ ToggleStepEnabled
    \/ SetInternalBpm
    \/ GetStateInformation
    \/ SetStateInformation

SpecState == Init /\ [][NextState]_vars

-----------------------------------------------------------------------------
(* Specification of the per-step edits: the editor switches manual mode,   *)
(* toggles steps and writes pattern values, with step indices and values   *)
(* inside and outside their ranges.                                        *)

StepArgs == {-1, 0, 4, 16}

ValueArgs == {-13, 5, 40}

\* a call op(arg) that leaves the processor as e2; the processor it was
\* made on is kept in lastOp.before
Edited(op, arg, e2) ==
    /\ calls < MaxCalls
    /\ calls' = calls + 1
    /\ eng' = e2
    /\ lastOp' = [op |-> op, arg |-> arg, wasPlaying |-> eng.isPlaying,
                  wasNoteOn |-> eng.noteIsOn, steps |-> <<>>, before |-> eng]
    /\ UNCHANGED <<playHead, midiMessages, log, clock, blocks, playStart, tape,
                   destData, reloaded, threads>>

EditManualStepMode ==
    \E b \in BOOLEAN : Edited("setManualStepMode", b, setManualStepMode(eng, b))

EditStepEnabled ==
    \E i \in StepArgs : Edited("toggleStepEnabled", i, toggleStepEnabled(eng, i))

SetSequenceValue ==
    \E i \in StepArgs : \E v \in ValueArgs :
        Edited("setSequenceValue", [step |-> i, value |-> v], setSequenceValue(eng, i, v))

NextSteps ==
    \/ EditManualStepMode
    \/ EditStepEnabled
    \/ SetSequenceValue

SpecSteps == Init /\ [][NextSteps]_vars

-----------------------------------------------------------------------------
(* Specification of the parameter setters called with arguments inside and *)
(* outside the parameter ranges, and of the octave transposition.          *)

RateArgs == {-1, 9, 10}

DensityArgs == {0, 16, 17}

OffsetArgs == {-1, 15, 16}

GateArgs == {0, 100, 150}

RootArgs == {5, 108, 115, 130}

\* values an out-of-table read of rateValues[] may yield
JunkRates == {[num |-> 0, den |-> 1], [num |-> 1, den |-> 4]}

AnyRate ==
    \E v \in RateArgs : \E junk \in JunkRates :
        Edited("setRate", v,
               IF v \in 0 .. 9 THEN setRate(eng, playHead, v)
               ELSE setRateOutsideTable(eng, playHead, v, junk))

AnyDensity == \E v \in DensityArgs : Edited("setDensity", v, setDensity(eng, v))

AnyOffset == \E v \in OffsetArgs : Edited("setOffset", v, setOffset(eng, v))

AnyGate == \E v \in GateArgs : Edited("setGate", v, setGate(eng, v))

AnyRoot == \E v \in RootArgs : Edited("setRoot", v, setRoot(eng, v))

TransposeOctaveUp == Edited("transposeOctaveUp", 0, transposeOctaveUp(eng))

TransposeOctaveDown == Edited("transposeOctaveDown", 0, transposeOctaveDown(eng))

NextParams ==
    \/ AnyRate
    \/ AnyDensity
    \/ AnyOffset
    \/ AnyGate
    \/ AnyRoot
    \/ TransposeOctaveUp
    \/ TransposeOctaveDown

SpecParams == Init /\ [][NextParams]_vars

-----------------------------------------------------------------------------
(* Specification of the processor under a host: the host reports its       *)
(* transport and tempo, prepares the processor at a sample rate, and hands *)
(* processBlock its own MIDI events; the editor switches the host sync,    *)
(* sets the internal tempo and starts and stops playback.                  *)

\* what the host's play head may report: nothing, or a tempo (a host may
\* report a negative one) and whether its transport runs
PlayHeads ==
    {NoPlayHead}
    \cup [present : {TRUE}, bpm : {120, -120}, isPlaying : BOOLEAN]

SampleRates == {0, 44100}

\* an event of the host: its bytes stand in note and velocity
inbound(note, velocity, p) ==
    [type |-> "inbound", note |-> note, velocity |-> velocity, samplePosition |-> p]

MidiIns == {<<>>, <<inbound(64, 100, 0), inbound(64, 0, 1000)>>}

HostReport ==
    \E ph \in PlayHeads :
        /\ calls < MaxCalls
        /\ calls' = calls + 1
        /\ ph # playHead
        /\ playHead' = ph
        /\ lastOp' = [op |-> "hostReport", arg |-> ph, wasPlaying |-> eng.isPlaying,
                      wasNoteOn |-> eng.noteIsOn, steps |-> <<>>, before |-> eng]
        /\ UNCHANGED <<eng, midiMessages, log, clock, blocks, playStart, tape,
                       destData, reloaded, threads>>

SetSyncToHostTransport ==
    \E b \in BOOLEAN :
        Edited("setSyncToHostTransport", b, setSyncToHostTransport(eng, b))

PrepareToPlay ==
    \E sr \in SampleRates : Edited("prepareToPlay", sr, prepareToPlay(eng, playHead, sr))

EditInternalBpm ==
    \E v \in InternalBpms : Edited("setInternalBpm", v, setInternalBpm(eng, playHead, v))

EditPlaying == \E b \in BOOLEAN : Edited("setPlaying", b, setPlaying(eng, b))

\* a processBlock call whose incoming buffer is one of midiIns
HostBlock(midiIns) ==
    \E n \in BlockSizes : \E midiIn \in midiIns :
        LET w == processBlock(eng, playHead, n, midiIn)
        IN /\ blocks < MaxBlocks
           /\ eng' = w.eng
           /\ midiMessages' = w.processedMidi
           /\ log' = log \o Stamp(w.processedMidi, clock, n)
           /\ playStart' = Started(eng, w.eng)
           /\ clock' = clock + n
           /\ blocks' = blocks + 1
           /\ lastOp' = [op |-> "processBlock", arg |-> n, wasPlaying |-> eng.isPlaying,
                         wasNoteOn |-> eng.noteIsOn, steps |-> w.steps,
                         before |-> eng, midiIn |-> midiIn]
           /\ UNCHANGED <<playHead, calls, tape, destData, reloaded, threads>>

ProcessBlockUnderHost == HostBlock({<<>>})

\* the processors the host specifications start from: the constructed
\* one, and the one restored with gate 1.0
InitHost ==
    /\ Init
    /\ eng \in {RandomWalkSequencer(ZeroTape),
                 setStateInformation(RandomWalkSequencer(ZeroTape), LegatoSession)}

NextHost ==
    \/ HostReport
    \/ SetSyncToHostTransport
    \/ PrepareToPlay
    \/ EditInternalBpm
    \/ EditPlaying
    \/ ProcessBlockUnderHost

SpecHost == InitHost /\ [][NextHost]_vars

-----------------------------------------------------------------------------
(* Specification of the MIDI pass-through: blocks that carry events of the *)
(* host, on a processor that is stopped, playing, or prepared at sample    *)
(* rate 0.                                                                 *)

ProcessBlockWithMidi == HostBlock(MidiIns)

NextThru ==
    \/ EditPlaying
    \/ PrepareToPlay
    \/ ProcessBlockWithMidi

SpecThru == InitHost /\ [][NextThru]_vars

-----------------------------------------------------------------------------
(* Specification of loading into a processor in use: the editor changes    *)
(* steps, mode and transport, and the host loads documents that lack       *)
(* fields, carry another top-level tag, or cannot be parsed.               *)

\* doc with only the attributes names, and only the Step and Enabled
\* entries of the steps kept, left
Keep(doc, names, kept) ==
    [doc EXCEPT !.attr = [n \in names |-> doc.attr[n]],
                !.step = [i \in kept |-> doc.step[i]],
                !.enabled = [i \in kept |-> doc.enabled[i]]]

\* doc without its Sequence child element
WithoutSequence(doc) == [doc EXCEPT !.hasSequence = FALSE]

AllAttributes == {"rate", "density", "offset", "gate", "root", "manualStepMode"}

LoadDocs ==
    { Keep(E2ESession, {"rate", "root"}, {0, 1}),
      Keep(ManualSession, {"gate"}, {}),
      WithoutSequence(Keep(LegatoSession, AllAttributes, Steps)),
      [E2ESession EXCEPT !.tag = "PluginState"],
      NoXml }

LoadState ==
    \E doc \in LoadDocs :
        Edited("setStateInformation", doc, setStateInformation(eng, doc))

NextLoad ==
    \/ EditManualStepMode
    \/ EditStepEnabled
    \/ SetSequenceValue
    \/ EditPlaying
    \/ LoadState

SpecLoad == Init /\ [][NextLoad]_vars

-----------------------------------------------------------------------------
(* Specification of setDensity on the message thread running while the     *)
(* audio thread executes the density-mode step advance of processBlock.    *)
(* The members are plain ints with no lock or atomic around them, so each  *)
(* action is one load or one store of a member, and the two loads of the   *)
(* advance statement happen in either order.  threads.ui.value is the      *)
(* argument of setDensity; threads.audio.step and threads.audio.density    *)
(* are the values the audio thread has loaded, -1 before the load.         *)

RaceDensities == {3, 8, 16}

\* a playing processor in density mode whose playback has reached step c
RaceEngines ==
    { [setPlaying(RandomWalkSequencer(ZeroTape), TRUE)
         EXCEPT !.densityValue = p[1], !.currentStep = p[2]] :
      p \in { q \in RaceDensities \X (0 .. numSteps - 1) : q[2] < q[1] } }

InitRace ==
    /\ eng \in RaceEngines
    /\ playHead = NoPlayHead
    /\ midiMessages = <<>>
    /\ log = <<>>
    /\ clock = 0
    /\ lastOp = NoOp
    /\ blocks = 0
    /\ calls = 0
    /\ playStart = 0
    /\ tape = ZeroTape
    /\ destData = NoXml
    /\ reloaded = RandomWalkSequencer(ZeroTape)
    /\ threads = NoThreads

\* a step of one thread: the processor becomes e2, the threads become t2
ThreadStep(e2, t2) ==
    /\ eng' = e2
    /\ threads' = t2
    /\ UNCHANGED <<playHead, midiMessages, log, clock, lastOp, blocks, calls,
                   playStart, tape, destData, reloaded>>

\* the editor calls setDensity(value)
CallSetDensity ==
    \E value \in 1 .. numSteps :
        /\ threads.ui.pc = "idle"
        /\ ThreadStep(eng, [threads EXCEPT !.ui = [pc |-> "test", value |-> value]])

\* if (densityValue != value)
UiTestDensity ==
    /\ threads.ui.pc = "test"
    /\ ThreadStep(eng, [threads EXCEPT !.ui.pc =
                            IF eng.densityValue # threads.ui.value
                            THEN "store" ELSE "done"])

\* densityValue = value
UiStoreDensity ==
    /\ threads.ui.pc = "store"
    /\ ThreadStep([eng EXCEPT !.densityValue = threads.ui.value],
                  [threads EXCEPT !.ui.pc = "check"])

\* if (currentStep >= densityValue)
UiTestCurrentStep ==
    /\ threads.ui.pc = "check"
    /\ ThreadStep(eng, [threads EXCEPT !.ui.pc =
                            IF eng.currentStep >= eng.densityValue
                            THEN "reset" ELSE "done"])

\* currentStep = 0
UiResetCurrentStep ==
    /\ threads.ui.pc = "reset"
    /\ ThreadStep([eng EXCEPT !.currentStep = 0],
                  [threads EXCEPT !.ui.pc = "done"])

\* processBlock reaches the step advance: sampleCounter >= stepDuration
AudioEnterAdvance ==
    /\ threads.audio.pc = "idle"
    /\ eng.isPlaying /\ ~eng.manualStepMode
    /\ ThreadStep(eng, [threads EXCEPT !.audio.pc = "advance"])

\* the load of currentStep in (currentStep + 1) % densityValue
AudioLoadCurrentStep ==
    /\ threads.audio.pc = "advance"
    /\ threads.audio.step = -1
    /\ ThreadStep(eng, [threads EXCEPT !.audio.step = eng.currentStep])

\* the load of densityValue in (currentStep + 1) % densityValue
AudioLoadDensity ==
    /\ threads.audio.pc = "advance"
    /\ threads.audio.density = -1
    /\ ThreadStep(eng, [threads EXCEPT !.audio.density = eng.densityValue])

\* currentStep = the remainder computed from the two loaded values
AudioStoreCurrentStep ==
    /\ threads.audio.pc = "advance"
    /\ threads.audio.step # -1
    /\ threads.audio.density # -1
    /\ ThreadStep([eng EXCEPT !.currentStep =
                       CMod(threads.audio.step + 1, threads.audio.density)],
                  [threads EXCEPT !.audio.pc = "done"])

NextRace ==
    \/ CallSetDensity
    \/ UiTestDensity
    \/ UiStoreDensity
    \/ UiTestCurrentStep
    \/ UiResetCurrentStep
    \/ AudioEnterAdvance
    \/ AudioLoadCurrentStep
    \/ AudioLoadDensity
    \/ AudioStoreCurrentStep

SpecRace == InitRace /\ [][NextRace]_vars

-----------------------------------------------------------------------------
(* Specification of regenerating the pattern on a processor in use: the    *)
(* editor switches manual mode, toggles steps, starts and stops playback,  *)
(* asks for a new pattern of any type and sets all steps to the root.      *)

RegenTapes ==
    {ZeroTape, AccentTape}
    \cup { [kind |-> "line", rare |-> [i \in Steps |-> i % 4 = r]] : r \in {1, 4} }
    \cup { [kind |-> "arp",
            intervalIndex |-> [i \in Steps |-> IF i % 2 = 0 THEN 1 ELSE 3],
            invert |-> [i \in Steps |-> i % 2 = 1]] }

Regenerate ==
    /\ calls < MaxCalls
    /\ calls' = calls + 1
    /\ \E tp \in RegenTapes :
        \E patternType \in PatternTypesOf(tp.kind) :
            /\ tape' = tp
            /\ eng' = randomizeSequence(eng, patternType, tp)
            /\ lastOp' = [op |-> "randomizeSequence", arg |-> patternType,
                          wasPlaying |-> eng.isPlaying, wasNoteOn |-> eng.noteIsOn,
                          steps |-> <<>>, before |-> eng]
    /\ UNCHANGED <<playHead, midiMessages, log, clock, blocks, playStart,
                   destData, reloaded, threads>>

SetMonoMode == Edited("setMonoMode", 0, setMonoMode(eng))

ToggleSomeStep ==
    \E i \in {0, 4} : Edited("toggleStepEnabled", i, toggleStepEnabled(eng, i))

NextRegen ==
    \/ EditManualStepMode
    \/ ToggleSomeStep
    \/ EditPlaying
    \/ Regenerate
    \/ SetMonoMode

SpecRegen == Init /\ [][NextRegen]_vars

-----------------------------------------------------------------------------
(* Specification of starting playback at any loop length: the editor sets  *)
(* the density, starts and stops playback, and the host asks for blocks.   *)

StartDensities == {1, 3, 5, 8, 16}

\* a session saved with offset 7 and density 3
OffsetSession ==
    getStateInformation(setDensity(setOffset(RandomWalkSequencer(AccentTape), 7), 3))

InitStart ==
    InitOf({RandomWalkSequencer(AccentTape),
            setStateInformation(RandomWalkSequencer(ZeroTape), OffsetSession)})

EditDensity == \E d \in StartDensities : Edited("setDensity", d, setDensity(eng, d))

NextStart ==
    \/ EditDensity
    \/ EditPlaying
    \/ ProcessBlockUnderHost

SpecStart == InitStart /\ [][NextStart]_vars

-----------------------------------------------------------------------------
(* Specification of playback in manual step mode: sessions saved in manual *)
(* mode with disabled steps, at rate 1/4 and at rate 1/32 (where three     *)
(* blocks go round all sixteen steps); the editor toggles steps and        *)
(* starts and stops playback.                                              *)

\* manual mode at rate 1/32 with density 3, offset 15 and gate 1.0;
\* pattern steps 3 and 4 are disabled
FastManualSession ==
    getStateInformation(
        toggleStepEnabled(toggleStepEnabled(
            setManualStepMode(
                setGate(setDensity(setOffset(
                    setRate(RandomWalkSequencer(AccentTape), NoPlayHead, 0), 15), 3),
                        GateScale),
                TRUE), 3), 4))

InitManual ==
    InitOf({ setStateInformation(RandomWalkSequencer(ZeroTape), doc) :
             doc \in {ManualSession, FastManualSession} })

NextManual ==
    \/ ToggleSomeStep
    \/ EditPlaying
    \/ ProcessBlockUnderHost

SpecManual == InitManual /\ [][NextManual]_vars

-----------------------------------------------------------------------------
(* Specification of playback in density mode with density and offset held  *)
(* fixed: sessions saved with densities 3, 8 and 16 at rates 1/4 and 1/32; *)
(* the editor starts and stops playback.                                   *)

\* density 3 with offset 15 at rate 1/32
CycleSession ==
    getStateInformation(
        setDensity(setOffset(setRate(RandomWalkSequencer(AccentTape), NoPlayHead, 0), 15), 3))

\* density 16 with offset 7 at rate 1/32
FullLoopSession ==
    getStateInformation(
        setDensity(setOffset(setRate(RandomWalkSequencer(AccentTape), NoPlayHead, 0), 7), 16))

InitDensity ==
    InitOf({RandomWalkSequencer(AccentTape)}
           \cup { setStateInformation(RandomWalkSequencer(ZeroTape), doc) :
                  doc \in {OffsetSession, CycleSession, FullLoopSession} })

NextDensity ==
    \/ EditPlaying
    \/ ProcessBlockUnderHost

SpecDensity == InitDensity /\ [][NextDensity]_vars

-----------------------------------------------------------------------------
(* Specification of the note-on velocity: the editor has set the density   *)
(* to 1 and written a value to pattern step 0, any of -12..12, and starts  *)
(* and stops playback.                                                     *)

PatternValues == -maxRange .. maxRange

InitVelocity ==
    InitOf({ setSequenceValue(setDensity(RandomWalkSequencer(ZeroTape), 1), 0, v) :
             v \in PatternValues })

NextVelocity ==
    \/ EditPlaying
    \/ ProcessBlockUnderHost

SpecVelocity == InitVelocity /\ [][NextVelocity]_vars

-----------------------------------------------------------------------------
(* Specification of the step counter under rate changes: the editor starts *)
(* and stops playback and changes the rate between blocks, to 1/32 and to  *)
(* 1/2 (a step of 11025 samples, the length of two of the blocks); the     *)
(* host also asks for blocks of no sample and of one sample.               *)

CounterRates == {0, 5}

EditRate == \E r \in CounterRates : Edited("setRate", r, setRate(eng, playHead, r))

InitCounter == InitOf({RandomWalkSequencer(AccentTape)})

\* the block sizes at the edge: no sample, one sample
ShortBlockSizes == {0, 1}

ProcessShortBlock ==
    \E n \in ShortBlockSizes :
        LET w == processBlock(eng, playHead, n, <<>>)
        IN /\ blocks < MaxBlocks
           /\ eng' = w.eng
           /\ midiMessages' = w.processedMidi
           /\ log' = log \o Stamp(w.processedMidi, clock, n)
           /\ playStart' = Started(eng, w.eng)
           /\ clock' = clock + n
           /\ blocks' = blocks + 1
           /\ lastOp' = [op |-> "processBlock", arg |-> n, wasPlaying |-> eng.isPlaying,
                         wasNoteOn |-> eng.noteIsOn, steps |-> w.steps,
                         before |-> eng, midiIn |-> <<>>]
           /\ UNCHANGED <<playHead, calls, tape, destData, reloaded, threads>>

NextCounter ==
    \/ EditRate
    \/ EditPlaying
    \/ ProcessBlockUnderHost
    \/ ProcessShortBlock

SpecCounter == InitCounter /\ [][NextCounter]_vars

-----------------------------------------------------------------------------
(* Specification of the gate: the processor as constructed (rate 1/4,      *)
(* a step of 5512.5 samples, gate 50%) or restored at rate 1/2 with gate   *)
(* 20% (a step of 11025 samples, a note of 2205), played with tempo, rate  *)
(* and gate left alone, over blocks whose ends fall on, before and after   *)
(* the end of the gate.                                                    *)

GateSession ==
    getStateInformation(setGate(setRate(RandomWalkSequencer(AccentTape), NoPlayHead, 5), 20))

GateBlockSizes == {2205, 3000, 11025, 13230}

\* a processBlock call of one of the given sizes with an empty incoming buffer
ProcessBlockOf(sizes) ==
    \E n \in sizes :
        LET w == processBlock(eng, playHead, n, <<>>)
        IN /\ blocks < MaxBlocks
           /\ eng' = w.eng
           /\ midiMessages' = w.processedMidi
           /\ log' = log \o Stamp(w.processedMidi, clock, n)
           /\ playStart' = Started(eng, w.eng)
           /\ clock' = clock + n
           /\ blocks' = blocks + 1
           /\ lastOp' = [op |-> "processBlock", arg |-> n, wasPlaying |-> eng.isPlaying,
                         wasNoteOn |-> eng.noteIsOn, steps |-> w.steps,
                         before |-> eng, midiIn |-> <<>>]
           /\ UNCHANGED <<playHead, calls, tape, destData, reloaded, threads>>

ProcessGateBlock == ProcessBlockOf(GateBlockSizes)

InitGate ==
    InitOf({RandomWalkSequencer(AccentTape),
            setStateInformation(RandomWalkSequencer(ZeroTape), GateSession)})

NextGate ==
    \/ SetPlaying
    \/ ProcessGateBlock

SpecGate == InitGate /\ [][NextGate]_vars

-----------------------------------------------------------------------------
(* Specification of deactivation: the host reports its transport,          *)
(* prepares the processor, releases its resources and processes blocks,    *)
(* while the editor starts and stops playback and switches host sync.      *)

ReleaseResources == Edited("releaseResources", 0, releaseResources(eng))

InitRelease ==
    InitOf({RandomWalkSequencer(ZeroTape),
            setStateInformation(RandomWalkSequencer(ZeroTape), LegatoSession)})

NextRelease ==
    \/ HostReport
    \/ SetSyncToHostTransport
    \/ PrepareToPlay
    \/ ReleaseResources
    \/ EditPlaying
    \/ ProcessBlockUnderHost

SpecRelease == InitRelease /\ [][NextRelease]_vars

-----------------------------------------------------------------------------
(* Specification of the note numbers: the processor with the accented      *)
(* pattern (step 2 an octave up), as constructed with root 72 or restored  *)
(* with the root at 108 or at 24; the editor transposes by octaves and     *)
(* starts and stops playback.                                              *)

HighRootSession == getStateInformation(setRoot(RandomWalkSequencer(AccentTape), 108))

LowRootSession == getStateInformation(setRoot(RandomWalkSequencer(AccentTape), 24))

EditOctaveUp == Edited("transposeOctaveUp", 0, transposeOctaveUp(eng))

EditOctaveDown == Edited("transposeOctaveDown", 0, transposeOctaveDown(eng))

InitNote ==
    InitOf({RandomWalkSequencer(AccentTape)}
           \cup { setStateInformation(RandomWalkSequencer(ZeroTape), doc) :
                  doc \in {HighRootSession, LowRootSession} })

NextNote ==
    \/ EditOctaveUp
    \/ EditOctaveDown
    \/ EditPlaying
    \/ ProcessBlockUnderHost

SpecNote == InitNote /\ [][NextNote]_vars

-----------------------------------------------------------------------------
(* Specification of the division into blocks: a processor whose step is a  *)
(* whole number of samples (rate 1/2 at 120 bpm: 11025 samples; rate 1/4   *)
(* at 300 bpm: 2205 samples) is started and fed blocks whose sizes add up  *)
(* to the same totals in several ways.                                     *)

PartitionBlockSizes == {1025, 1180, 2205, 10000}

ProcessPartitionBlock == ProcessBlockOf(PartitionBlockSizes)

InitPartition ==
    InitOf({setStateInformation(RandomWalkSequencer(ZeroTape), GateSession),
            setInternalBpm(RandomWalkSequencer(AccentTape), NoPlayHead, 300)})

NextPartition ==
    \/ SetPlaying
    \/ ProcessPartitionBlock

SpecPartition == InitPartition /\ [][NextPartition]_vars

-----------------------------------------------------------------------------
(* Specification of the enabled flags: the editor's step display toggles   *)
(* steps on a double click, the editor switches manual step mode and       *)
(* regenerates the pattern, and the host loads state documents.            *)

\* StepDisplay::mouseDoubleClick on the given step: the step is toggled
\* and manual step mode is entered if it is not active
mouseDoubleClick(e, stepNumber) ==
    LET e1 == toggleStepEnabled(e, stepNumber)
    IN IF ~e1.manualStepMode THEN setManualStepMode(e1, TRUE) ELSE e1

ClickedSteps == {0, 4, 15}

MouseDoubleClick ==
    \E i \in ClickedSteps : Edited("mouseDoubleClick", i, mouseDoubleClick(eng, i))

NextFlags ==
    \/ MouseDoubleClick
    \/ EditManualStepMode
    \/ Regenerate
    \/ LoadState

SpecFlags == Init /\ [][NextFlags]_vars

-----------------------------------------------------------------------------
(* Properties *)

NumOn(l, k) == Cardinality({i \in 1 .. k : l[i].type = "noteOn"})

NumOff(l, k) == Cardinality({i \in 1 .. k : l[i].type = "noteOff"})

\* C1: once the engine has stopped and the next block has been processed,
\* every note-on delivered to the host has been followed by its note-off
\* (the note sounding at a Playing->Stopped transition gets its note-off
\* no later than the next processBlock).
NoteOffAfterStop ==
    (lastOp.op = "processBlock" /\ ~eng.isPlaying)
        => NumOn(log, Len(log)) <= NumOff(log, Len(log))

\* C2: at every prefix of the delivered event stream the note-ons exceed
\* the note-offs by at most one.
AtMostOneVoice ==
    \A k \in 1 .. Len(log) : NumOn(log, k) - NumOff(log, k) <= 1

\* C3: every event of the buffer a processBlock call of N samples returns
\* has a sample offset p with 0 <= p < N.
OffsetsInBlock ==
    lastOp.op = "processBlock"
        => \A k \in 1 .. Len(midiMessages) :
               /\ 0 <= midiMessages[k].samplePosition
               /\ midiMessages[k].samplePosition < lastOp.arg

\* the end-to-end scenario: the session with rate index 6, gate 0.5,
\* density 1, offset 0, pattern[0] = 0 and root 60 at 44100 Hz and 120 bpm;
\* one call, the play command, at sample 0, then three blocks of 10000
E2EScenario ==
    /\ calls = 1 /\ playStart = 0 /\ eng.isPlaying
    /\ blocks = 3 /\ clock = 30000
    /\ eng.sampleRate = 44100 /\ eng.bpm = 120
    /\ eng.rateValue = 6 /\ eng.gateValue = 50
    /\ eng.densityValue = 1 /\ eng.offsetValue = 0 /\ ~eng.manualStepMode
    /\ eng.sequence[0] = 0 /\ eng.rootValue = 60

HasEvent(type, note, time) ==
    \E k \in 1 .. Len(log) :
        log[k].type = type /\ log[k].note = note /\ log[k].time = time

\* C4 as claimed: the scenario yields note-on(60) at sample 0, note-off(60)
\* at sample 11025 and note-on(60) at sample 22050, two note-ons in all.
E2EAsClaimed ==
    E2EScenario
        => /\ HasEvent("noteOn", 60, 0)
           /\ HasEvent("noteOff", 60, 11025)
           /\ HasEvent("noteOn", 60, 22050)
           /\ NumOn(log, Len(log)) = 2

\* C4 as amended: in the scenario stepDuration is 22050 samples and the
\* note length 11025 samples, and the three blocks yield exactly one event:
\* note-on(60) at absolute sample 22050 (offset 2050 of the third block);
\* nothing sounds at sample 0 and no note-off falls within the 30000 samples.
E2EFirstNoteAfterOneStep ==
    E2EScenario
        => /\ eng.stepDuration = 22050 * TicksPerSample
           /\ getNoteLength(eng) = 11025 * TicksPerSample
           /\ Len(log) = 1
           /\ log[1].type = "noteOn" /\ log[1].note = 60
           /\ log[1].time = 22050 /\ log[1].samplePosition = 2050

E2EReached == E2EScenario /\ eng.noteIsOn /\ eng.lastNoteValue = 60

\* C5: setPlaying(false) while stopped and setPlaying(true) while playing
\* deliver no event and leave currentStep, sampleCounter, isPlaying and
\* noteIsOn as they were.
SetPlayingIdempotent ==
    [][(lastOp'.op = "setPlaying" /\ lastOp'.arg = eng.isPlaying)
        => /\ eng'.currentStep = eng.currentStep
           /\ eng'.sampleCounter = eng.sampleCounter
           /\ eng'.isPlaying = eng.isPlaying
           /\ eng'.noteIsOn = eng.noteIsOn
           /\ log' = log /\ midiMessages' = midiMessages]_vars

PlayWhilePlaying ==
    /\ lastOp.op = "setPlaying" /\ lastOp.arg /\ lastOp.wasPlaying
    /\ eng.noteIsOn /\ eng.sampleCounter > 0

\* C6: every actualStepIndex computed during a step advance lies in 0..15.
StepIndexInRange ==
    \A k \in 1 .. Len(lastOp.steps) :
        lastOp.steps[k] >= 0 /\ lastOp.steps[k] <= 15

\* a block that advanced onto a step whose offset-adjusted index wrapped
\* around the end of the pattern
StepIndexWrapped ==
    /\ lastOp.op = "processBlock"
    /\ \E k \in 1 .. Len(lastOp.steps) : lastOp.steps[k] < eng.offsetValue

\* C7: generateRandomWalk leaves exactly 16 pattern values, each in
\* [-12, 12].
WalkPatternInRange ==
    (lastOp.op = "randomizeSequence" /\ tape.kind = "walk")
        => /\ DOMAIN eng.sequence = Steps
           /\ \A i \in Steps : eng.sequence[i] >= -12 /\ eng.sequence[i] <= 12

\* C8: a processor saved with getStateInformation and restored with
\* setStateInformation into a new processor has the same rate, density,
\* offset, gate, root, manualStepMode, internalBpm, pattern values and
\* enabled flags.
StateRoundTrip ==
    lastOp.op = "setStateInformation"
        => /\ reloaded.rateValue = eng.rateValue
           /\ reloaded.densityValue = eng.densityValue
           /\ reloaded.offsetValue = eng.offsetValue
           /\ reloaded.gateValue = eng.gateValue
           /\ reloaded.rootValue = eng.rootValue
           /\ reloaded.manualStepMode = eng.manualStepMode
           /\ reloaded.internalBpm = eng.internalBpm
           /\ \A i \in Steps :
                  /\ reloaded.sequence[i] = eng.sequence[i]
                  /\ reloaded.enabledSteps[i] = eng.enabledSteps[i]

\* C9: in density mode with density 1, getCurrentStep() is 0 in every
\* state, and every step advance sounds the step at index offset.
DensityOneStaysOnStepZero ==
    (eng.densityValue = 1 /\ ~eng.manualStepMode)
        => /\ eng.currentStep = 0
           /\ \A k \in 1 .. Len(lastOp.steps) : lastOp.steps[k] = eng.offsetValue

\* a run at gate 1.0 with tempo, rate and gate fixed: the session with
\* gate 1.0, and the play command as the only call
LegatoRun == eng.gateValue = GateScale /\ calls = 1 /\ eng.isPlaying

OffThenOn(k) ==
    k < Len(log) /\ log[k].type = "noteOff" /\ log[k + 1].type = "noteOn"

\* C10 as claimed: at gate 1.0 the note-off of a step is never placed
\* before the next step's note-on.
LegatoOffNotBeforeNextOn ==
    LegatoRun
        => \A k \in 1 .. Len(log) : OffThenOn(k) => log[k].time >= log[k + 1].time

\* the note-off was put on the last sample of its block and the next
\* note-on opens the following block
ClampedToBlockEnd(k) ==
    /\ log[k].samplePosition = log[k].numSamples - 1
    /\ log[k + 1].samplePosition = 0
    /\ log[k].time + 1 = log[k + 1].time

\* C10 as amended: at gate 1.0 the note-off of a step is placed at the
\* sample of the next step's note-on, except when the step boundary falls
\* on the end of a block: then it is placed on the last sample of that
\* block, one sample before the note-on that opens the next block.
LegatoOffAtNextOnOrBlockEnd ==
    LegatoRun
        => \A k \in 1 .. Len(log) :
               OffThenOn(k) => (log[k].time = log[k + 1].time \/ ClampedToBlockEnd(k))

LegatoBothCases ==
    /\ LegatoRun
    /\ \E k \in 1 .. Len(log) : OffThenOn(k) /\ log[k].time = log[k + 1].time
    /\ \E k \in 1 .. Len(log) : OffThenOn(k) /\ ClampedToBlockEnd(k)

\* C11: after setManualStepMode(false), isStepEnabled(i) is true for every
\* i in 0..15, whatever the flags and the mode were before.
ManualOffEnablesAll ==
    (lastOp.op = "setManualStepMode" /\ ~lastOp.arg)
        => \A i \in 0 .. 15 : isStepEnabled(eng, i)

\* manual mode switched off on a processor in manual mode with a step
\* disabled
ManualOffAfterDisable ==
    /\ lastOp.op = "setManualStepMode" /\ ~lastOp.arg
    /\ lastOp.before.manualStepMode
    /\ \E i \in 0 .. 15 : ~isStepEnabled(lastOp.before, i)
    /\ ~eng.manualStepMode

\* C12: after setRoot(v) and any number of transposeOctaveUp and
\* transposeOctaveDown calls the root value lies in [12, 120].
RootInRangeAfterTranspose ==
    lastOp.op \in {"transposeOctaveUp", "transposeOctaveDown"}
        => (eng.rootValue >= 12 /\ eng.rootValue <= 120)

\* C13: after a call of setRate, setDensity, setOffset, setGate or setRoot
\* with any argument the stored parameters are valid: rate in 0..9, density
\* in 1..16, offset in 0..15, gate in [0.1, 1.0], root in 12..120.
SettersValidate ==
    lastOp.op \in {"setRate", "setDensity", "setOffset", "setGate", "setRoot"}
        => /\ eng.rateValue >= 0 /\ eng.rateValue <= 9
           /\ eng.densityValue >= 1 /\ eng.densityValue <= 16
           /\ eng.offsetValue >= 0 /\ eng.offsetValue <= 15
           /\ 10 * eng.gateValue >= GateScale /\ eng.gateValue <= GateScale
           /\ eng.rootValue >= 12 /\ eng.rootValue <= 120

\* C14: setSequenceValue(step, value) stores value clamped to [-12, 12]
\* when step is in 0..15 and changes nothing otherwise; toggleStepEnabled
\* with a step outside 0..15 changes no flag; isStepEnabled of a step
\* outside 0..15 is false.
StepEditsTolerateBadInput ==
    /\ lastOp.op = "setSequenceValue"
         => LET step == lastOp.arg.step
                value == lastOp.arg.value
                clamped == IF value > 12 THEN 12 ELSE IF value < -12 THEN -12 ELSE value
            IN IF step \in 0 .. 15
               THEN /\ eng.sequence[step] = clamped
                    /\ \A i \in 0 .. 15 : i # step => eng.sequence[i] = lastOp.before.sequence[i]
                    /\ eng.enabledSteps = lastOp.before.enabledSteps
               ELSE eng = lastOp.before
    /\ (lastOp.op = "toggleStepEnabled" /\ lastOp.arg \notin 0 .. 15)
         => eng = lastOp.before
    /\ \A step \in {-16, -1, 16, 17} : ~isStepEnabled(eng, step)

\* a pattern value above the range written to a step that is itself in
\* range and held another value
ValueClampedOnWrite ==
    /\ lastOp.op = "setSequenceValue"
    /\ lastOp.arg.step \in 0 .. 15 /\ lastOp.arg.value > 12
    /\ eng.sequence[lastOp.arg.step] = 12
    /\ lastOp.before.sequence[lastOp.arg.step] # 12

\* a processBlock call that ran with a non-positive step duration or a
\* non-positive sample rate
DegenerateBlock ==
    lastOp.op = "processBlock" /\ (eng.stepDuration <= 0 \/ eng.sampleRate <= 0)

Missing(doc, name) == name \notin DOMAIN doc.attr

\* C16: loading a document with the expected top-level tag sets every
\* missing field to its default: rate 1, density 16, offset 0, gate 0.5,
\* root 72, manualStepMode false, internalBpm 120, and every step whose
\* entry is missing to value 0 and enabled, whatever the processor held.
MissingFieldsGetDefaults ==
    (lastOp.op = "setStateInformation" /\ lastOp.arg.valid /\ lastOp.arg.tag = StateTag)
        => LET doc == lastOp.arg
           IN /\ Missing(doc, "rate") => eng.rateValue = 1
              /\ Missing(doc, "density") => eng.densityValue = 16
              /\ Missing(doc, "offset") => eng.offsetValue = 0
              /\ Missing(doc, "gate") => eng.gateValue * 2 = GateScale
              /\ Missing(doc, "root") => eng.rootValue = 72
              /\ Missing(doc, "manualStepMode") => ~eng.manualStepMode
              /\ Missing(doc, "internalBpm") => eng.internalBpm = 120
              /\ \A i \in Steps :
                     (~doc.hasSequence \/ i \notin DOMAIN doc.step)
                         => eng.sequence[i] = 0
              /\ \A i \in Steps :
                     (~doc.hasSequence \/ i \notin DOMAIN doc.enabled)
                         => eng.enabledSteps[i]

\* C17: loading a document that cannot be parsed, or whose top-level tag
\* is not the expected one, leaves every field of the processor as it was.
RejectedLoadChangesNothing ==
    (lastOp.op = "setStateInformation"
        /\ (~lastOp.arg.valid \/ lastOp.arg.tag # StateTag))
        => eng = lastOp.before

\* a complete document under another tag, whose rate differs from the
\* processor's, loaded while the processor plays
WrongTagLoadedWhilePlaying ==
    /\ lastOp.op = "setStateInformation"
    /\ lastOp.arg.valid /\ lastOp.arg.tag # StateTag
    /\ TextToInt(lastOp.arg.attr.rate) # eng.rateValue
    /\ eng.isPlaying
    /\ eng = lastOp.before

\* the step duration updateTimingInfo computes from tempo t
StepDurationAt(e, t) ==
    (((60 * e.sampleRate * TicksPerSample) \div t) * getRateInSeconds(e).num)
        \div getRateInSeconds(e).den

\* C18: whenever the host gives no transport report, the tempo used to
\* compute stepDuration is internalBpm, with the host sync on or off,
\* also after setInternalBpm was called while the sync was on.
InternalTempoWithoutHost ==
    (lastOp.op \in {"processBlock", "setInternalBpm", "prepareToPlay"}
        /\ ~playHead.present)
        => /\ eng.bpm = eng.internalBpm
           /\ eng.stepDuration = StepDurationAt(eng, eng.internalBpm)

IsInbound(ev) == ev.type = "inbound"

\* C19: processBlock hands every incoming event to the output unchanged
\* and at its sample position, in the order received, whether the
\* processor is stopped, playing or has degenerate timing; the generated
\* events are those of the same call without incoming events.
InboundPassedThrough ==
    lastOp.op = "processBlock"
        => /\ SelectSeq(midiMessages, IsInbound) = lastOp.midiIn
           /\ SelectSeq(midiMessages, LAMBDA ev : ~IsInbound(ev))
                = processBlock(lastOp.before, playHead, lastOp.arg, <<>>).processedMidi

\* a block in which a generated event lies between two incoming ones
InboundMergedWithGenerated ==
    /\ lastOp.op = "processBlock"
    /\ Len(lastOp.midiIn) = 2
    /\ eng.isPlaying
    /\ \E k \in 2 .. Len(midiMessages) - 1 :
           /\ IsInbound(midiMessages[1])
           /\ ~IsInbound(midiMessages[k])
           /\ IsInbound(midiMessages[k + 1])

\* C20: when setDensity(d) of the message thread, 1 <= d <= 16, runs while
\* the audio thread performs a density-mode step advance, on a processor
\* that started with currentStep < densityValue, then once both have
\* finished currentStep < d.
ConcurrentSetDensitySafe ==
    (threads.ui.pc = "done" /\ threads.audio.pc = "done")
        => eng.currentStep < threads.ui.value

\* the fields of the processor other than the pattern values
OtherThanSequence(e) == [f \in DOMAIN e \ {"sequence"} |-> e[f]]

\* C21: randomizeSequence called in manual step mode, with any pattern
\* type, leaves the sixteen enabled flags and manualStepMode as they were;
\* nothing but the pattern values changes.
RegenerationKeepsFlags ==
    (lastOp.op = "randomizeSequence" /\ lastOp.before.manualStepMode)
        => /\ eng.enabledSteps = lastOp.before.enabledSteps
           /\ eng.manualStepMode
           /\ OtherThanSequence(eng) = OtherThanSequence(lastOp.before)

\* a regeneration in manual step mode, with a disabled step, that changed
\* the pattern
RegeneratedWithDisabledStep ==
    /\ lastOp.op = "randomizeSequence"
    /\ lastOp.before.manualStepMode
    /\ \E i \in Steps : ~lastOp.before.enabledSteps[i]
    /\ eng.sequence # lastOp.before.sequence

\* C22: setMonoMode sets all sixteen pattern values to 0, so that every
\* step plays the root note, and leaves the enabled flags, the mode, the
\* parameters and the transport state as they were.
MonoModeZeroesPattern ==
    lastOp.op = "setMonoMode"
        => /\ \A i \in Steps : eng.sequence[i] = 0
           /\ \A i \in Steps : getNoteForStep(eng, i) = eng.rootValue
           /\ OtherThanSequence(eng) = OtherThanSequence(lastOp.before)

\* setMonoMode on a playing processor in manual step mode with a disabled
\* step and a pattern that is not all zero
MonoModeOnEditedPattern ==
    /\ lastOp.op = "setMonoMode"
    /\ lastOp.before.manualStepMode
    /\ lastOp.before.isPlaying
    /\ \E i \in Steps : ~lastOp.before.enabledSteps[i]
    /\ \E i \in Steps : lastOp.before.sequence[i] # 0

\* the block is the first one after playback started in density mode, and
\* it advanced a step
FirstAdvanceAfterStart ==
    /\ lastOp.op = "processBlock"
    /\ lastOp.before.isPlaying
    /\ ~lastOp.before.manualStepMode
    /\ lastOp.before.currentStep = numSteps - 1
    /\ lastOp.before.sampleCounter = 0
    /\ Len(lastOp.steps) >= 1

\* C23: in density mode, at every density, the first step advance after
\* playback started lands on step 0 before the offset: the first note
\* played is pattern[offset].
FirstAdvanceLandsOnStepZero ==
    FirstAdvanceAfterStart
        => /\ lastOp.steps[1] = CMod(eng.offsetValue, numSteps)
           /\ midiMessages[1].type = "noteOn"
           /\ midiMessages[1].note = getNoteForStep(eng, CMod(eng.offsetValue, numSteps))

\* C24: setDensity(d), 1 <= d <= 16, on a playing processor leaves
\* currentStep as it was when currentStep < d and sets it to 0 when
\* currentStep >= d: right after the call currentStep lies in [0, d).
SetDensityClampsCurrentStep ==
    (lastOp.op = "setDensity" /\ lastOp.before.isPlaying)
        => /\ lastOp.before.currentStep < lastOp.arg
               => eng.currentStep = lastOp.before.currentStep
           /\ lastOp.before.currentStep >= lastOp.arg => eng.currentStep = 0
           /\ eng.currentStep >= 0 /\ eng.currentStep < lastOp.arg

\* the iterations of the while loop of a processBlock call that starts
\* the loop in walk state w: for each, the walk state at the top of the
\* loop (top), whether the step advanced, and the walk state after the
\* step-advance test (segment)
RECURSIVE IterationsOf(_, _)
IterationsOf(w, numSamples) ==
    IF w.samplePosition >= numSamples THEN <<>>
    ELSE LET advanced == w.eng.sampleCounter >= w.eng.stepDuration
             w1 == IF advanced THEN AdvanceStep(w) ELSE w
         IN <<[top |-> w, advanced |-> advanced, segment |-> w1]>>
                \o IterationsOf(GateAndAdvance(w1, numSamples), numSamples)

\* the loop iterations of the processBlock call that lastOp records
BlockIterations ==
    LET e1 == updateTimingInfo(lastOp.before, playHead)
        w0 == [eng |-> e1, samplePosition |-> 0,
               processedMidi |-> PassThrough(<<>>, lastOp.midiIn), steps |-> <<>>]
    IN IF e1.sampleRate > 0 /\ e1.stepDuration > 0 /\ e1.isPlaying
       THEN IterationsOf(w0, lastOp.arg) ELSE <<>>

\* the iterations of the last block in which the step advanced
BlockAdvances == SelectSeq(BlockIterations, LAMBDA it : it.advanced)

EventsAdded(it, type) ==
    Cardinality({k \in 1 .. Len(it.segment.processedMidi) :
                     it.segment.processedMidi[k].type = type})
        - Cardinality({k \in 1 .. Len(it.top.processedMidi) :
                           it.top.processedMidi[k].type = type})

\* C25: in manual mode every step advance sets currentStep to
\* (currentStep + 1) mod 16 whatever the density; it emits a note-on if and
\* only if the enabled flag of index (currentStep + offset) mod 16 is set;
\* an advance onto a disabled step emits no note-on and still ends the
\* note that was sounding.
ManualAdvance ==
    (lastOp.op = "processBlock" /\ lastOp.before.manualStepMode)
        => /\ Len(BlockAdvances) = Len(lastOp.steps)
           /\ \A k \in 1 .. Len(BlockAdvances) :
                LET it == BlockAdvances[k]
                    step == CMod(it.top.eng.currentStep + 1, 16)
                    index == CMod(step + eng.offsetValue, 16)
                IN /\ it.segment.eng.currentStep = step
                   /\ lastOp.steps[k] = index
                   /\ EventsAdded(it, "noteOn")
                          = (IF eng.enabledSteps[index] THEN 1 ELSE 0)
                   /\ it.segment.eng.noteIsOn = eng.enabledSteps[index]
                   /\ EventsAdded(it, "noteOff")
                          = (IF it.top.eng.noteIsOn THEN 1 ELSE 0)
           /\ eng.currentStep
                  = CMod(updateTimingInfo(lastOp.before, playHead).currentStep
                             + Len(lastOp.steps), 16)
           /\ NumOn(midiMessages, Len(midiMessages))
                  = Cardinality({k \in 1 .. Len(lastOp.steps) :
                                     eng.enabledSteps[lastOp.steps[k]]})

\* a block in manual mode with density 3 that advanced onto step 4, later
\* went from step 15 to step 0, and advanced onto a disabled step while a
\* note was sounding
ManualWrapOverDisabledStep ==
    /\ lastOp.op = "processBlock"
    /\ lastOp.before.manualStepMode
    /\ eng.densityValue = 3
    /\ \E j, k \in 1 .. Len(BlockAdvances) :
           /\ j < k
           /\ BlockAdvances[j].segment.eng.currentStep = 4
           /\ BlockAdvances[k].top.eng.currentStep = 15
           /\ BlockAdvances[k].segment.eng.currentStep = 0
    /\ \E k \in 1 .. Len(BlockAdvances) :
           /\ BlockAdvances[k].top.eng.noteIsOn
           /\ ~eng.enabledSteps[lastOp.steps[k]]
           /\ EventsAdded(BlockAdvances[k], "noteOn") = 0

\* the note-ons of the buffer the last block returned
NoteOns == SelectSeq(midiMessages, LAMBDA ev : ev.type = "noteOn")

\* C26: in density mode with density d and offset o fixed, every step
\* advance sets currentStep to (currentStep + 1) mod d and emits a note-on;
\* after the first advance currentStep stays in [0, d), and the pattern
\* indices sounded are (o + k) mod 16 for k = 0..d-1, in this cyclic order,
\* and no other.
DensityAdvance ==
    (lastOp.op = "processBlock" /\ ~lastOp.before.manualStepMode)
        => LET d == eng.densityValue
               o == eng.offsetValue
           IN /\ Len(BlockAdvances) = Len(lastOp.steps)
              /\ Len(NoteOns) = Len(lastOp.steps)
              /\ \A k \in 1 .. Len(BlockAdvances) :
                   LET it == BlockAdvances[k]
                       step == CMod(it.top.eng.currentStep + 1, d)
                   IN /\ it.segment.eng.currentStep = step
                      /\ step >= 0 /\ step < d
                      /\ EventsAdded(it, "noteOn") = 1
                      /\ lastOp.steps[k] = CMod(step + o, 16)
                      /\ NoteOns[k].note = getNoteForStep(eng, CMod(step + o, 16))
              /\ \A k \in 1 .. Len(lastOp.steps) - 1 :
                   \E j \in 0 .. d - 1 :
                       /\ lastOp.steps[k] = CMod(o + j, 16)
                       /\ lastOp.steps[k + 1] = CMod(o + CMod(j + 1, d), 16)
              /\ (Len(lastOp.steps) >= 1 \/ lastOp.before.currentStep < d)
                     => eng.currentStep >= 0 /\ eng.currentStep < d

\* a block at density 3 and offset 15 that sounded the indices 15, 0, 1 and
\* then 15 again
DensityCycleSounded ==
    /\ lastOp.op = "processBlock"
    /\ ~lastOp.before.manualStepMode
    /\ eng.densityValue = 3 /\ eng.offsetValue = 15
    /\ \E k \in 1 .. Len(lastOp.steps) - 3 :
           /\ lastOp.steps[k] = 15 /\ lastOp.steps[k + 1] = 0
           /\ lastOp.steps[k + 2] = 1 /\ lastOp.steps[k + 3] = 15
    /\ Len(NoteOns) >= 4

\* n / d rounded to the nearest integer, halves upwards, for n >= 0
Rounded(n, d) == (2 * n + d) \div (2 * d)

\* C27 as claimed: for every pattern value v in [-12, 12] the note-on
\* velocity is 80 + round(30 * |v| / 12), and it lies in 1..127.
VelocityRounded ==
    lastOp.op = "processBlock"
        => \A k \in 1 .. Len(NoteOns) :
               LET v == eng.sequence[lastOp.steps[k]]
               IN (v >= -12 /\ v <= 12)
                      => /\ NoteOns[k].velocity = 80 + Rounded(30 * Abs(v), 12)
                         /\ NoteOns[k].velocity >= 1 /\ NoteOns[k].velocity <= 127

\* C27 as amended: for every pattern value v in [-12, 12] the note-on
\* velocity is 80 plus 30 * |v| / 12 with the fraction dropped, and it lies
\* in 80..110, inside the MIDI range 1..127.
VelocityTruncated ==
    lastOp.op = "processBlock"
        => /\ Len(NoteOns) = Len(lastOp.steps)
           /\ \A k \in 1 .. Len(NoteOns) :
               LET v == eng.sequence[lastOp.steps[k]]
               IN (v >= -12 /\ v <= 12)
                      => /\ 12 * (NoteOns[k].velocity - 80) <= 30 * Abs(v)
                         /\ 30 * Abs(v) < 12 * (NoteOns[k].velocity - 80 + 1)
                         /\ NoteOns[k].velocity >= 80 /\ NoteOns[k].velocity <= 110

\* a note-on for pattern value -5, where 30 * 5 / 12 = 12.5: velocity 92
VelocityOfOddValue ==
    /\ lastOp.op = "processBlock"
    /\ Len(NoteOns) >= 1
    /\ eng.sequence[lastOp.steps[1]] = -5
    /\ NoteOns[1].velocity = 92

\* C28: whenever the bpm in effect changes by more than 0.01 from one
\* timing recomputation to the next (setInternalBpm while not synced, a
\* host tempo change while synced, a switch of the sync source),
\* sampleCounter is 0 right after the recomputation.
TempoChangeResetsCounter ==
    /\ (lastOp.op \in {"setInternalBpm", "prepareToPlay"}
            /\ Abs(eng.bpm - lastOp.before.bpm) * 100 > 1)
           => eng.sampleCounter = 0
    /\ lastOp.op = "processBlock"
           => LET e1 == updateTimingInfo(lastOp.before, playHead)
              IN Abs(e1.bpm - lastOp.before.bpm) * 100 > 1 => e1.sampleCounter = 0

\* the index the first step advance of a block sounds when the block
\* starts its loop with currentStep = step
FirstIndexFrom(step) ==
    CMod((IF eng.manualStepMode THEN CMod(step + 1, numSteps)
          ELSE CMod(step + 1, eng.densityValue)) + eng.offsetValue, numSteps)

\* C29: with the host sync enabled and a host report present, isPlaying
\* equals the host's is-playing flag at the end of every processBlock, and
\* the host start resets sampleCounter to 0 and currentStep to 15 when the
\* processor goes from stopped to playing and not otherwise; with the sync
\* disabled a host report changes nothing: isPlaying, bpm, currentStep and
\* sampleCounter are what they are without the report.
HostFollowedOnlyWhenSynced ==
    lastOp.op = "processBlock"
        => LET b == lastOp.before
               e1 == updateTimingInfo(b, playHead)
               alone == processBlock(b, NoPlayHead, lastOp.arg, lastOp.midiIn)
           IN /\ (b.syncToHostTransport /\ playHead.present)
                    => /\ eng.isPlaying = playHead.isPlaying
                       /\ (playHead.isPlaying /\ ~b.isPlaying)
                              => /\ e1.sampleCounter = 0
                                 /\ e1.currentStep = numSteps - 1
                                 /\ Len(lastOp.steps) >= 1
                                        => lastOp.steps[1] = FirstIndexFrom(numSteps - 1)
                       /\ ~(playHead.isPlaying /\ ~b.isPlaying)
                              => /\ e1.currentStep = b.currentStep
                                 /\ e1.bpm = b.bpm => e1.sampleCounter = b.sampleCounter
                                 /\ Len(lastOp.steps) >= 1
                                        => lastOp.steps[1] = FirstIndexFrom(b.currentStep)
              /\ ~b.syncToHostTransport
                    => /\ eng = alone.eng
                       /\ midiMessages = alone.processedMidi
                       /\ eng.isPlaying = b.isPlaying
                       /\ eng.bpm = b.internalBpm

\* a block with the sync enabled in which the running host started the
\* stopped processor, whose first step advance sounded a note
HostStartedPlayback ==
    /\ lastOp.op = "processBlock"
    /\ lastOp.before.syncToHostTransport
    /\ playHead.present /\ playHead.isPlaying
    /\ ~lastOp.before.isPlaying
    /\ lastOp.before.currentStep # numSteps - 1
    /\ eng.isPlaying
    /\ Len(lastOp.steps) >= 1
    /\ Len(midiMessages) >= 1

\* C30: while playing with stepDuration > 0, 0 <= sampleCounter <
\* stepDuration at the start of every segment (after the step-advance
\* test) and at the end of every processBlock call, also when the block
\* ends exactly on a step boundary and when the rate or the tempo was
\* changed between blocks.
CounterWithinStep ==
    (lastOp.op = "processBlock" /\ eng.isPlaying /\ eng.stepDuration > 0)
        => /\ \A k \in 1 .. Len(BlockIterations) :
                LET e == BlockIterations[k].segment.eng
                IN 0 <= e.sampleCounter /\ e.sampleCounter < e.stepDuration
           /\ 0 <= eng.sampleCounter /\ eng.sampleCounter < eng.stepDuration

\* the number of samples iteration it of the loop moves samplePosition by
SegmentLength(it) ==
    GateAndAdvance(it.segment, lastOp.arg).samplePosition - it.top.samplePosition

\* C31: the segment loop of a block of N samples terminates: every
\* iteration moves samplePosition forward by at least 1 and at most
\* N - samplePosition, whatever sampleCounter is (also far above
\* stepDuration after a rate change), and the loop exits with
\* samplePosition = N.
SegmentLoopTerminates ==
    (lastOp.op = "processBlock" /\ eng.isPlaying /\ eng.stepDuration > 0
         /\ eng.sampleRate > 0)
        => LET its == BlockIterations
               N == lastOp.arg
           IN /\ \A k \in 1 .. Len(its) :
                    /\ SegmentLength(its[k]) >= 1
                    /\ SegmentLength(its[k]) <= N - its[k].top.samplePosition
                    /\ k < Len(its)
                         => its[k + 1].top.samplePosition
                                = its[k].top.samplePosition + SegmentLength(its[k])
              /\ Len(its) >= 1
                    => its[Len(its)].top.samplePosition + SegmentLength(its[Len(its)]) = N
              /\ Len(its) <= N
              /\ N = 0 => its = <<>>
              /\ processBlock(lastOp.before, playHead, N, lastOp.midiIn).samplePosition = N

\* a block entered with sampleCounter above twice the stepDuration after
\* the rate was made faster: it has iterations of one sample in which the
\* difference stepDuration - sampleCounter is negative
LoopWithCounterFarAbove ==
    /\ lastOp.op = "processBlock"
    /\ eng.isPlaying
    /\ lastOp.before.sampleCounter > 2 * lastOp.before.stepDuration
    /\ lastOp.before.stepDuration > 0
    /\ \E k \in 1 .. Len(BlockIterations) :
           LET e == BlockIterations[k].segment.eng
           IN e.stepDuration - e.sampleCounter < 0 /\ SegmentLength(BlockIterations[k]) = 1

\* a run with gate < 1 and tempo, rate and gate held fixed: the play
\* command is the only call made
GateRun == eng.gateValue < GateScale /\ calls = 1 /\ eng.isPlaying /\ playStart >= 0

\* the note-on at log[k] is followed by its gate note-off
OnThenOff(k) ==
    k < Len(log) /\ log[k].type = "noteOn" /\ log[k + 1].type = "noteOff"

\* the part of sampleCounter left at the note-on at log[k]: the time since
\* the start of playback beyond the whole steps
CounterAtNoteOn(k) == CMod((log[k].time - playStart) * TicksPerSample, eng.stepDuration)

\* the sample at which the note of log[k] has lasted noteLength
GateEnd(k) ==
    LET noteLength == (eng.stepDuration * eng.gateValue) \div GateScale
    IN log[k].time + CDiv(noteLength - CounterAtNoteOn(k), TicksPerSample)

GateClampedToBlockEnd(k) ==
    /\ log[k + 1].samplePosition = log[k + 1].numSamples - 1
    /\ log[k + 1].time + 1 = GateEnd(k)

Predecessor(sq, i, start) == IF i = 0 THEN start ELSE sq[i - 1]

Negated(sq) == [i \in Steps |-> -sq[i]]

\* sq holds 16 values in [-12, 12], each at most 1 away from its predecessor
IsLine(sq, start) ==
    /\ DOMAIN sq = Steps
    /\ \A i \in Steps :
           /\ sq[i] \in -12 .. 12
           /\ Abs(sq[i] - Predecessor(sq, i, start)) <= 1

\* C33: generateAscendingPattern and generateDescendingPattern produce 16
\* values in [-12, 12], each differing by at most 1 from its predecessor
\* (the start value -6, resp. +6, being the predecessor of step 0), and the
\* negation of every ascending pattern is the descending pattern of the
\* same draws and conversely, so that the two sets of patterns are each
\* other's element-wise negation.
LinePatternsBoundedAndMirrored ==
    /\ (lastOp.op = "randomizeSequence" /\ lastOp.arg = 1)
           => /\ IsLine(eng.sequence, -6)
              /\ Negated(eng.sequence) = generateDescendingPattern(eng.sequence, tape)
    /\ (lastOp.op = "randomizeSequence" /\ lastOp.arg = 2)
           => /\ IsLine(eng.sequence, 6)
              /\ Negated(eng.sequence) = generateAscendingPattern(eng.sequence, tape)

\* a descending pattern that rose to the top of the range, was held
\* there, and came down again
DescendingPatternHeldAtTop ==
    /\ lastOp.op = "randomizeSequence" /\ lastOp.arg = 2
    /\ eng.sequence[0] = 7
    /\ \E i \in 1 .. 14 :
           eng.sequence[i] = 12 /\ eng.sequence[i - 1] = 12 /\ eng.sequence[i + 1] = 11

\* C34: generateArpeggioPattern produces 16 values, each one of 0, 4, 7, 12
\* lowered by 12 only when it is not 0: every value is one of -8, -5, 0, 4,
\* 7, 12.
ArpeggioValues ==
    (lastOp.op = "randomizeSequence" /\ lastOp.arg = 3)
        => /\ DOMAIN eng.sequence = Steps
           /\ \A i \in Steps :
                  /\ eng.sequence[i] \in {-8, -5, 0, 4, 7, 12}
                  /\ eng.sequence[i] \in {0, 4, 7, 12}
                     \/ (tape.invert[i] /\ eng.sequence[i] + 12 \in {4, 7, 12})

\* an arpeggio whose octave drop was drawn for a root, which stayed 0, and
\* for a third, which became -8
ArpeggioWithDropDrawnOnRoot ==
    /\ lastOp.op = "randomizeSequence" /\ lastOp.arg = 3
    /\ \E i \in Steps : tape.invert[i] /\ tape.intervalIndex[i] = 0 /\ eng.sequence[i] = 0
    /\ \E i \in Steps : tape.invert[i] /\ eng.sequence[i] = -8

\* the host has received a note-off for every note-on
NothingSounding(l) == NumOn(l, Len(l)) <= NumOff(l, Len(l))

\* the step from a releaseResources or prepareToPlay call made while a
\* note was sounding to the next processBlock
BlockAfterRelease ==
    /\ lastOp.op \in {"releaseResources", "prepareToPlay"}
    /\ lastOp.wasNoteOn
    /\ lastOp'.op = "processBlock"

\* C35: when releaseResources, or prepareToPlay, is called while a note is
\* sounding, the note-off of that note has reached the MIDI output by the
\* end of the next processBlock, and releaseResources leaves isPlaying and
\* noteIsOn false.
ReleaseLeavesNoHangingNote ==
    [][/\ BlockAfterRelease => NothingSounding(log')
       /\ lastOp'.op = "releaseResources" => (~eng'.isPlaying /\ ~eng'.noteIsOn)]_vars

\* C36: whenever the processor is stopped between calls, noteIsOn is
\* false, so that the not-playing branch of processBlock never finds a
\* sounding note.
StoppedMeansNoNote ==
    /\ ~eng.isPlaying => ~eng.noteIsOn
    /\ (lastOp.op = "processBlock" /\ ~updateTimingInfo(lastOp.before, playHead).isPlaying)
           => ~updateTimingInfo(lastOp.before, playHead).noteIsOn

\* the processor released while it followed the host's transport and a
\* note sounded
ReleasedWhileSounding ==
    /\ lastOp.op = "releaseResources" /\ lastOp.wasPlaying /\ lastOp.wasNoteOn
    /\ eng.syncToHostTransport /\ playHead.isPlaying
    /\ ~eng.isPlaying

\* the note-on most recently emitted before log[k]
LastOnBefore(k) ==
    CHOOSE j \in 1 .. k - 1 :
        /\ log[j].type = "noteOn"
        /\ \A i \in j + 1 .. k - 1 : log[i].type # "noteOn"

\* C37: at every prefix of the emitted stream the note-offs do not
\* outnumber the note-ons, and every note-off carries the note number of
\* the note-on most recently emitted before it.
NoSpuriousNoteOff ==
    \A k \in 1 .. Len(log) :
        /\ NumOff(log, k) <= NumOn(log, k)
        /\ log[k].type = "noteOff"
               => /\ NumOn(log, k) > 0
                  /\ log[LastOnBefore(k)].note = log[k].note

\* C38: with the root in 12..120 and every pattern value in -12..12, the
\* note number root + pattern[actualStepIndex] of every note-on of a block
\* is a MIDI note number, one of 0..127.
NoteNumbersValid ==
    (/\ lastOp.op = "processBlock"
     /\ eng.rootValue \in 12 .. 120
     /\ \A i \in Steps : eng.sequence[i] \in -maxRange .. maxRange)
        => \A k \in 1 .. Len(midiMessages) :
               midiMessages[k].type = "noteOn"
                   => /\ \E i \in Steps :
                             midiMessages[k].note = eng.rootValue + eng.sequence[i]
                      /\ midiMessages[k].note \in 0 .. 127

\* a run with the parameters fixed and a step of a whole number of
\* samples: the play command is the only call made
PartitionRun ==
    /\ calls = 1 /\ eng.isPlaying /\ playStart >= 0
    /\ eng.stepDuration > 0 /\ eng.stepDuration % TicksPerSample = 0

\* the same processor, started the same way and fed the samples of the
\* run as a single block
InOneBlock ==
    processBlock(setPlaying([eng EXCEPT !.isPlaying = FALSE], TRUE), playHead,
                 clock - playStart, <<>>)

\* the note-ons of a sequence of events as <<note, time since the start>>
NoteOnTimes(events, timeOf(_)) ==
    LET ons == SelectSeq(events, LAMBDA ev : ev.type = "noteOn")
    IN [k \in 1 .. Len(ons) |-> <<ons[k].note, timeOf(ons[k])>>]

RunNoteOns == NoteOnTimes(log, LAMBDA ev : ev.time - playStart)

\* C39: with the parameters fixed and stepDuration a whole number of
\* samples, the run emits the note-ons the same processor emits when it is
\* fed the same number of samples as one block, at the same absolute
\* times, consecutive note-ons are stepDuration apart, and both end with
\* the same currentStep and sampleCounter: the division into blocks does
\* not matter.
PartitionIndependent ==
    PartitionRun
        => /\ RunNoteOns = NoteOnTimes(InOneBlock.processedMidi,
                                       LAMBDA ev : ev.samplePosition)
           /\ \A k \in 1 .. Len(RunNoteOns) - 1 :
                  (RunNoteOns[k + 1][2] - RunNoteOns[k][2]) * TicksPerSample
                      = eng.stepDuration
           /\ eng.currentStep = InOneBlock.eng.currentStep
           /\ eng.sampleCounter = InOneBlock.eng.sampleCounter

\* a run of three blocks with a note-on at the start of a block, a note-on
\* inside a block, and the last block ending on a step boundary
PartitionAcrossStepBoundaries ==
    /\ PartitionRun /\ blocks = 3
    /\ \E k \in 1 .. Len(log) : log[k].type = "noteOn" /\ log[k].samplePosition = 0
    /\ \E k \in 1 .. Len(log) : log[k].type = "noteOn" /\ log[k].samplePosition > 0
    /\ eng.sampleCounter = eng.stepDuration

\* C40: whenever manualStepMode is false, all 16 enabled flags are true,
\* after any sequence of step toggles, setManualStepMode,
\* randomizeSequence and setStateInformation calls.
DensityModeAllEnabled ==
    ~eng.manualStepMode => \A i \in Steps : eng.enabledSteps[i]

====
